---- MODULE Spec2Model ----
(***************************************************************************)
(* Off-chain builders of the Psyndica EUTXO protocol: the escrow (HTLC)    *)
(* transaction builders of transactions/escrow.ts and the HTLC builder and *)
(* atomic-swap parameter generator of htlc-builder.ts, and the Supervisor  *)
(* of supervisor.ts with the async calls made on it.                       *)
(*                                                                         *)
(* Time is the value Date.now() returns (POSIX milliseconds).  Strings are *)
(* modelled by what the code reads of them: a hash string by its length    *)
(* and its digest, a key hash by its owner and its length.                 *)
(***************************************************************************)
EXTENDS Integers, Sequences, FiniteSets, TLC

VARIABLES
    now,        \* the system clock, what Date.now() returns
    leg,        \* the escrow datum of the leg the spending builders are called on
    attempts,   \* Claim / Refund / Cancel attempts made on the leg so far
    succeeded,  \* how many of those attempts succeeded
    last,       \* the last escrow builder call: its inputs and its Result
    mesh,       \* HTLCTransactionBuilder.meshTxBuilder: what has been added to it
    swap,       \* the value generateAtomicSwapParams returned, with its inputs
    hlast,      \* the last HTLCTransactionBuilder call: its inputs and its Result
    blast,      \* the last HTLCBuilder call: its inputs and what its promise settled with
    config,             \* Supervisor.config
    restartCounts,      \* Supervisor.restartCounts: id -> {count, windowStart}
    supervisorRestarts, \* Supervisor.supervisorRestarts: {count, windowStart}
    isRunning,          \* Supervisor.isRunning
    tasks,      \* the calls of startAll / stopAll / handleCrash in progress or finished
    seen,       \* per process, the crashes handled in its current restart window
    fuel,       \* how many more calls and start() / stop() failures may happen
    retry,      \* the call of submitWithRetry: its inputs, its position, its history
    rin,        \* the royalty UTXO and recipient list the royalty functions are called on
    rlast,      \* the last call of a royalty function: its arguments and what it built
    configUtxo, \* the RoyaltyConfig UTXO buildConfigUpdate is called on, and its last call
    datumUtxo   \* the RoyaltyDatum UTXO RoyaltyBuilder is called on, and its last call

vars == <<now, leg, attempts, succeeded, last, mesh, swap, hlast, blast,
          config, restartCounts, supervisorRestarts, isRunning, tasks, seen, fuel,
          retry, rin, rlast, configUtxo, datumUtxo>>

escrowVars == <<leg, attempts, succeeded, last>>
htlcVars == <<mesh, swap, hlast, blast>>
supVars == <<config, restartCounts, supervisorRestarts, isRunning, tasks, seen, fuel>>
indexVars == <<retry>>
royaltyVars == <<rin, rlast, configUtxo, datumUtxo>>

----------------------------------------------------------------------------
(* Bounds of the model *)

\* Clock values are 0..MaxTime and GRACE_PERIOD_MS + (0..MaxTime).
MaxTime == 3
\* Deadlines and timeouts of input datums are 1..MaxDeadline.
MaxDeadline == 2
\* Secrets are 1..MaxSecret.
MaxSecret == 2
\* Spending attempts made on one escrow leg.
MaxAttempts == 3
\* Timeout durations given to generateAtomicSwapParams are 1..MaxDuration.
MaxDuration == 2
\* Funding UTXOs given to buildCreate are 0..MaxUtxos.
MaxUtxos == 2
\* The supervisor's clock runs over 0..MaxClock.
MaxClock == 4
\* restartWindow of the supervisor and of every child.
MaxWindow == 3
\* backoffMs of a child is 1..MaxBackoff.
MaxBackoff == 1
\* maxRestarts of a child is 1..MaxChildRestarts.
MaxChildRestarts == 2
\* maxRestarts of the supervisor is 1..MaxSupRestarts.
MaxSupRestarts == 2
\* Calls of startAll / handleCrash that may be in progress at once.
MaxTasks == 2
\* Crashes reported to handleCrash from outside, rejections of start(), and
\* calls of startAll in one behaviour.
MaxCrashes == 3
MaxStartFails == 1
MaxStartAlls == 1
\* Crashes reported from outside in a behaviour with overlapping calls.
MaxOverlapCrashes == 2
\* Calls of stopAll, rejections of stop(), and crashes reported from outside in
\* a behaviour with shutdowns.
MaxStopAlls == 1
MaxStopFails == 1
MaxShutdownCrashes == 1
\* maxAttempts, baseDelayMs and maxDelayMs of a RetryConfig are 1..the bound.
MaxRetryAttempts == 3
MaxBaseDelay == 2
MaxDelayCap == 5
\* Recipient lists have 0..MaxRecipients entries.
MaxRecipients == 3
MaxVersion == 3
\* Rejections of start() by a child that never starts, in one behaviour.
MaxFailingStarts == 5

----------------------------------------------------------------------------
(* Program constants *)

MIN_ESCROW_AMOUNT == 5000000

GRACE_PERIOD_MS == 300000

\* The length of a SHA-256 digest in hex characters.
HASH_HEX_LEN == 64

\* The length of a verification key hash in hex characters.
KEY_HASH_LEN == 56

----------------------------------------------------------------------------
(* Input domains *)

Times == (0..MaxTime) \cup {GRACE_PERIOD_MS + k : k \in 0..MaxTime}

Deadlines == 1..MaxDeadline

Secrets == 1..MaxSecret

Parties == {"alice", "bob"}

Amounts == {MIN_ESCROW_AMOUNT - 1, MIN_ESCROW_AMOUNT}

EscrowState == {"Locked", "Claiming", "Completed", "Refunded"}

\* createHash('sha256').update(s).digest('hex'): 64 hex characters, the digest a
\* function of the input alone, and no collision among the secrets of the model.
Sha256Hex(s) == [len |-> HASH_HEX_LEN, digest |-> (s * 5 + 3) % 7]

hashSecret(secret) == Sha256Hex(secret)

sha256(data) == Sha256Hex(data)

\* A secret hash string of the wrong length.
ShortHash == [len |-> HASH_HEX_LEN - 1, digest |-> 0]

HashInputs == {Sha256Hex(s) : s \in Secrets} \cup {ShortHash}

KeyHash(p) == [who |-> p, len |-> KEY_HASH_LEN]

KeyHashInputs == {KeyHash(p) : p \in Parties} \cup {[who |-> "bob", len |-> KEY_HASH_LEN - 1]}

EscrowDatum(dep, ben, h, dl, amt, st) ==
    [depositor |-> dep, beneficiary |-> ben, secretHash |-> h,
     deadline |-> dl, amount |-> amt, state |-> st]

\* The datums a spending builder is called on: read from an escrow UTXO, in any state.
LegDatums ==
    {EscrowDatum(KeyHash(dep), KeyHash("bob"), h, dl, MIN_ESCROW_AMOUNT, st) :
        dep \in Parties, h \in HashInputs, dl \in Deadlines, st \in EscrowState}

\* The datums validateEscrowDatum is called on.
ValidateDatums ==
    {EscrowDatum(dep, KeyHash("bob"), h, dl, amt, "Locked") :
        dep \in KeyHashInputs, h \in HashInputs, dl \in Deadlines, amt \in Amounts}

----------------------------------------------------------------------------
(* Result<TransactionResult> of transactions/escrow.ts *)

NoTx == [fee |-> 0, inputs |-> <<>>, outputs |-> <<>>]

Fail(msg) == [success |-> FALSE, error |-> msg, value |-> NoTx]

Ok(tx) == [success |-> TRUE, error |-> "", value |-> tx]

EscrowUtxoRef == "escrowTx#0"

\* buildCreateEscrowTransaction: the Result, and the datum it constructs.
CreateSecretHash(secret) == hashSecret(secret)

\* Mutant: a deadline equal to the current time is let through.
buildCreateEscrowTransaction_LateDeadline(depositor, beneficiary, secret, amount, deadline, t) ==
    IF amount < MIN_ESCROW_AMOUNT
    THEN Fail("Amount below minimum")
    ELSE IF deadline < t
    THEN Fail("Deadline must be in the future")
    ELSE Ok([fee |-> 250000, inputs |-> <<"depositorUtxo#0">>,
             outputs |-> <<"escrowOutput#0">>])

buildCreateEscrowTransaction(depositor, beneficiary, secret, amount, deadline, t) ==
    IF amount < MIN_ESCROW_AMOUNT
    THEN Fail("Amount below minimum")
    ELSE IF deadline <= t
    THEN Fail("Deadline must be in the future")
    ELSE Ok([fee |-> 250000, inputs |-> <<"depositorUtxo#0">>,
             outputs |-> <<"escrowOutput#0">>])

CreatedDatum(depositor, beneficiary, secret, amount, deadline) ==
    EscrowDatum(depositor, beneficiary, CreateSecretHash(secret), deadline, amount, "Locked")

\* The deadline check of buildClaimEscrowTransaction: TRUE when the claim is refused.
ClaimDeadlinePassed(t, deadline) == t > deadline

\* Mutant: the state check is missing.
buildClaimEscrowTransaction_NoStateCheck(datum, secret, t) ==
    IF hashSecret(secret) # datum.secretHash
    THEN Fail("Invalid secret: hash does not match")
    ELSE IF ClaimDeadlinePassed(t, datum.deadline)
    THEN Fail("Claim deadline has passed")
    ELSE Ok([fee |-> 300000, inputs |-> <<EscrowUtxoRef>>,
             outputs |-> <<"beneficiaryOutput#0">>])

buildClaimEscrowTransaction(datum, secret, t) ==
    IF datum.state # "Locked"
    THEN Fail("Cannot claim escrow in state")
    ELSE IF hashSecret(secret) # datum.secretHash
    THEN Fail("Invalid secret: hash does not match")
    ELSE IF ClaimDeadlinePassed(t, datum.deadline)
    THEN Fail("Claim deadline has passed")
    ELSE Ok([fee |-> 300000, inputs |-> <<EscrowUtxoRef>>,
             outputs |-> <<"beneficiaryOutput#0">>])

\* Mutant: the grace period is not added.
refundableTime_NoGrace(deadline) == deadline

refundableTime(deadline) == deadline + GRACE_PERIOD_MS

buildRefundEscrowTransaction(datum, depositorAddress, t) ==
    IF datum.state # "Locked"
    THEN Fail("Cannot refund escrow in state")
    ELSE IF t < refundableTime(datum.deadline)
    THEN Fail("Must wait more seconds for refund")
    ELSE Ok([fee |-> 250000, inputs |-> <<EscrowUtxoRef>>,
             outputs |-> <<"depositorOutput#0">>])

\* Mutant: the state check is missing.
buildCancelEscrowTransaction_NoStateCheck(datum, depositorAddress, t) ==
    IF t >= datum.deadline
    THEN Fail("Cannot cancel after deadline - use refund instead")
    ELSE Ok([fee |-> 250000, inputs |-> <<EscrowUtxoRef>>,
             outputs |-> <<"depositorOutput#0">>])

\* depositorAddress is a parameter the function never reads.
buildCancelEscrowTransaction(datum, depositorAddress, t) ==
    IF datum.state # "Locked"
    THEN Fail("Cannot cancel escrow in state")
    ELSE IF t >= datum.deadline
    THEN Fail("Cannot cancel after deadline - use refund instead")
    ELSE Ok([fee |-> 250000, inputs |-> <<EscrowUtxoRef>>,
             outputs |-> <<"depositorOutput#0">>])

validateEscrowDatum(datum, t) ==
    IF datum.amount < MIN_ESCROW_AMOUNT
    THEN Fail("Amount below minimum")
    ELSE IF datum.deadline <= t
    THEN Fail("Deadline must be in the future")
    ELSE IF datum.secretHash.len # HASH_HEX_LEN
    THEN Fail("Invalid secret hash length")
    ELSE IF datum.depositor.len # KEY_HASH_LEN
    THEN Fail("Invalid depositor address length")
    ELSE IF datum.beneficiary.len # KEY_HASH_LEN
    THEN Fail("Invalid beneficiary address length")
    ELSE Ok(NoTx)

\* The ledger's side of a spending transaction that was built: the leg leaves
\* Locked (the transition table of the escrow state machine).
LedgerApply(datum, op) ==
    [datum EXCEPT !.state = IF op = "Claim" THEN "Completed" ELSE "Refunded"]

----------------------------------------------------------------------------
(* HTLCTransactionBuilder of htlc-builder.ts *)

\* Result<string>: ok with the unsigned transaction, or a TransactionBuildError.
HOk == [ok |-> TRUE, code |-> "", value |-> "unsignedTx"]

HErr(code) == [ok |-> FALSE, code |-> code, value |-> ""]

\* -1: the validity bound is not set.
Unset == 0 - 1

\* meshTxBuilder after reset().
MeshEmpty == [txIns |-> 0, txOuts |-> 0, invalidBefore |-> Unset, invalidHereafter |-> Unset]

HTLCDatum(recipient, refundAddress, h, timeout) ==
    [recipient |-> recipient, refundAddress |-> refundAddress,
     secretHash |-> h, timeout |-> timeout]

HtlcDatums ==
    {HTLCDatum("bob", "alice", h, tmo) : h \in HashInputs, tmo \in Deadlines}

\* Each builder method gives the Result and what it leaves in meshTxBuilder.
\* completes: whether meshTxBuilder.complete() resolves (it throws otherwise).
\* Mutant: a timeout equal to the current time is let through.
HTLCTransactionBuilder_buildCreate_LateTimeout(m, datum, nUtxos, completes, t) ==
    IF datum.timeout < t
    THEN [res |-> HErr("INVALID_DATUM"), mesh |-> m]
    ELSE IF datum.secretHash.len # HASH_HEX_LEN
    THEN [res |-> HErr("INVALID_DATUM"), mesh |-> m]
    ELSE [res |-> IF completes THEN HOk ELSE HErr("SCRIPT_ERROR"),
          mesh |-> [MeshEmpty EXCEPT !.txIns = nUtxos, !.txOuts = 1]]

HTLCTransactionBuilder_buildCreate(m, datum, nUtxos, completes, t) ==
    IF datum.timeout <= t
    THEN [res |-> HErr("INVALID_DATUM"), mesh |-> m]
    ELSE IF datum.secretHash.len # HASH_HEX_LEN
    THEN [res |-> HErr("INVALID_DATUM"), mesh |-> m]
    ELSE [res |-> IF completes THEN HOk ELSE HErr("SCRIPT_ERROR"),
          mesh |-> [MeshEmpty EXCEPT !.txIns = nUtxos, !.txOuts = 1]]

\* The timeout check of buildClaim: TRUE when the claim is refused.
HtlcExpired(t, timeout) == t >= timeout

HTLCTransactionBuilder_buildClaim(m, datum, secret, completes, t) ==
    IF sha256(secret) # datum.secretHash
    THEN [res |-> HErr("INVALID_REDEEMER"), mesh |-> m]
    ELSE IF HtlcExpired(t, datum.timeout)
    THEN [res |-> HErr("TIMEOUT"), mesh |-> m]
    ELSE [res |-> IF completes THEN HOk ELSE HErr("SCRIPT_ERROR"),
          mesh |-> [MeshEmpty EXCEPT !.txIns = 1, !.txOuts = 1,
                                     !.invalidHereafter = datum.timeout - 1]]

HTLCTransactionBuilder_buildRefund(m, datum, completes, t) ==
    IF t < datum.timeout
    THEN [res |-> HErr("TIMEOUT"), mesh |-> m]
    ELSE [res |-> IF completes THEN HOk ELSE HErr("SCRIPT_ERROR"),
          mesh |-> [MeshEmpty EXCEPT !.txIns = 1, !.txOuts = 1,
                                     !.invalidBefore = datum.timeout]]

\* calculateTimeout(durationMs), t being what its Date.now() returns.
calculateTimeout(durationMs, t) == t + durationMs

\* generateAtomicSwapParams: tCardano and tBitcoin are what Date.now() returns in
\* the first and in the second call of calculateTimeout.
generateAtomicSwapParams(cardanoTimeoutMs, bitcoinTimeoutMs, secret, tCardano, tBitcoin) ==
    [made |-> TRUE,
     secret |-> secret,
     secretHash |-> sha256(secret),
     cardanoHTLC |-> HTLCDatum("counterparty", "initiator", sha256(secret),
                               calculateTimeout(cardanoTimeoutMs, tCardano)),
     bitcoinTimeout |-> calculateTimeout(bitcoinTimeoutMs, tBitcoin),
     cardanoTimeoutMs |-> cardanoTimeoutMs,
     bitcoinTimeoutMs |-> bitcoinTimeoutMs]

NoSwap ==
    [made |-> FALSE, secret |-> 0, secretHash |-> ShortHash,
     cardanoHTLC |-> HTLCDatum("counterparty", "initiator", ShortHash, 0),
     bitcoinTimeout |-> 0, cardanoTimeoutMs |-> 0, bitcoinTimeoutMs |-> 0]

----------------------------------------------------------------------------
(* Supervisor of supervisor.ts: its data *)

\* The registered processes in registration order (the key order of the Map
\* Supervisor.processes).
ProcessIds == <<"A", "B", "C">>

NumProcesses == Len(ProcessIds)

indexOf(id) == CHOOSE i \in 1..NumProcesses : ProcessIds[i] = id

SupervisionStrategy == {"OneForOne", "OneForAll", "RestForOne"}

\* A SupervisorConfig.  children maps each configured process id to its
\* SupervisedProcessConfig; a process may be registered without a child config.
SupervisorConfigs ==
    { [strategy |-> s, maxRestarts |-> m, restartWindow |-> MaxWindow,
       children |-> [id \in ids |-> [maxRestarts |-> n, restartWindow |-> MaxWindow,
                                     backoffMs |-> b]]] :
        s \in SupervisionStrategy, m \in 1..MaxSupRestarts, n \in 1..MaxChildRestarts,
        b \in 1..MaxBackoff, ids \in {{"A", "B", "C"}, {"A", "B"}} }

\* An entry of the trace of a call: a call of start() or stop() on a process, a
\* crash handed to handleCrash with what was decided for it, an emitted event.
Ev(k, id, d, n) == [k |-> k, id |-> id, d |-> d, n |-> n]

NoWait == [kind |-> "none", id |-> "", wake |-> 0]

\* A call slot nobody uses.
FreeTask ==
    [kind |-> "none", id |-> "", status |-> "free", stack |-> <<>>, wait |-> NoWait,
     trace |-> <<>>, result |-> "none", err |-> ""]

NewTask(kind, id) == [FreeTask EXCEPT !.kind = kind, !.id = id, !.status = "running"]

\* The state after new Supervisor(c) and registerProcess of each process, at
\* time 0.
Constructed(c, f) ==
    /\ config = c
    /\ restartCounts = [id \in {"A", "B", "C"} |-> [count |-> 0, windowStart |-> 0]]
    /\ supervisorRestarts = [count |-> 0, windowStart |-> 0]
    /\ isRunning = FALSE
    /\ tasks = [t \in 1..MaxTasks |-> FreeTask]
    /\ seen = [id \in {"A", "B", "C"} |-> 0]
    /\ fuel = f

\* A supervisor nobody calls.
SupervisorIdle ==
    Constructed([strategy |-> "OneForOne", maxRestarts |-> 1, restartWindow |-> 1,
                 children |-> [id \in {"A", "B", "C"} |->
                                  [maxRestarts |-> 1, restartWindow |-> 1,
                                   backoffMs |-> 1]]],
                [crashes |-> 0, startFails |-> 0, startAlls |-> 0, slots |-> 0,
                 stopAlls |-> 0, stopFails |-> 0])

----------------------------------------------------------------------------
(* Supervisor of supervisor.ts: its methods *)

\* The errors a crash carries: one reported from outside for a running process,
\* or the rejection of start().
NoError == [src |-> "none", id |-> ""]
RunError(id) == [src |-> "run", id |-> id]
StartError(id) == [src |-> "start", id |-> id]
StopError(id) == [src |-> "stop", id |-> id]

\* One awaited step of an async method.
Step(op, id, n, err) == [op |-> op, id |-> id, n |-> n, err |-> err]

\* The processes from index lo on, last first, and first first.
Descending(lo) == [i \in 1..(NumProcesses - lo + 1) |-> ProcessIds[NumProcesses + 1 - i]]
Ascending(lo) == [i \in 1..(NumProcesses - lo + 1) |-> ProcessIds[lo + i - 1]]

Stops(ids) == [i \in 1..Len(ids) |-> Step("stop", ids[i], 0, NoError)]
Starts(ids) == [i \in 1..Len(ids) |-> Step("start", ids[i], 0, NoError)]

\* The machine a call runs on: the supervisor's fields, the clock, the call.
Machine(tk) ==
    [isRunning |-> isRunning, restartCounts |-> restartCounts,
     supervisorRestarts |-> supervisorRestarts, seen |-> seen, t |-> now, tk |-> tk]

Push(m, f) == [m EXCEPT !.tk.stack = <<f>> \o @]
Pop(m) == [m EXCEPT !.tk.stack = Tail(@)]
Emit(m, e) == [m EXCEPT !.tk.trace = Append(@, e)]
Await(m, kind, id, wake) ==
    [m EXCEPT !.tk.wait = [kind |-> kind, id |-> id, wake |-> wake]]
Finish(m, result, err) ==
    [m EXCEPT !.tk.status = "done", !.tk.stack = <<>>, !.tk.result = result,
              !.tk.err = err]

\* An exception leaves every method of the call; startAll catches it and
\* returns a failure, handleCrash and stopAll let it reach their caller.
Throw(m, err) ==
    IF m.tk.kind = "startAll" THEN Finish(m, "failure", err) ELSE Finish(m, "raised", err)

\* startProcess and stopProcess up to their await of process.start() / stop().
startProcess(m, id) == Await(Emit(m, Ev("start", id, "", 0)), "start", id, 0)
stopProcess(m, id) == Await(Emit(m, Ev("stop", id, "", 0)), "stop", id, 0)

delay(m, ms) == Await(m, "delay", "", m.t + ms)

hasConfig(id) == id \in DOMAIN config.children

\* shouldEscalate resetting the count of an expired window but not its start.
shouldEscalate_KeepWindowStart(restartInfo, processId, t) ==
    IF ~hasConfig(processId)
    THEN [restartInfo |-> restartInfo, reset |-> FALSE, result |-> FALSE]
    ELSE LET c == config.children[processId]
             reset == t - restartInfo.windowStart > c.restartWindow
             info == IF reset THEN [restartInfo EXCEPT !.count = 0] ELSE restartInfo
         IN  [restartInfo |-> info, reset |-> reset,
              result |-> info.count >= c.maxRestarts]

\* shouldEscalate letting one more restart through.
shouldEscalate_OneMore(restartInfo, processId, t) ==
    IF ~hasConfig(processId)
    THEN [restartInfo |-> restartInfo, reset |-> FALSE, result |-> FALSE]
    ELSE LET c == config.children[processId]
             reset == t - restartInfo.windowStart > c.restartWindow
             info == IF reset THEN [count |-> 0, windowStart |-> t] ELSE restartInfo
         IN  [restartInfo |-> info, reset |-> reset,
              result |-> info.count > c.maxRestarts]

\* shouldEscalate: the restart info it leaves, whether it reset the window, and
\* the value it returns.
shouldEscalate(restartInfo, processId, t) ==
    IF ~hasConfig(processId)
    THEN [restartInfo |-> restartInfo, reset |-> FALSE, result |-> FALSE]
    ELSE LET c == config.children[processId]
             reset == t - restartInfo.windowStart > c.restartWindow
             info == IF reset THEN [count |-> 0, windowStart |-> t] ELSE restartInfo
         IN  [restartInfo |-> info, reset |-> reset,
              result |-> info.count >= c.maxRestarts]

RECURSIVE Continue(_)

\* The methods of a call run until the call awaits a process, a timer, or ends.
Continue(m) ==
    IF m.tk.stack = <<>> THEN Finish(m, "ok", NoError)
    ELSE LET f == Head(m.tk.stack) IN
         IF f.steps = <<>> THEN Continue(Pop(m))
         ELSE LET s == Head(f.steps)
                  m1 == Push(Pop(m), [f EXCEPT !.steps = Tail(@)])
              IN  CASE s.op = "start" -> startProcess(m1, s.id)
                    [] s.op = "stop" -> stopProcess(m1, s.id)
                    [] s.op = "delay" -> delay(m1, s.n)
                    [] s.op = "emit" -> Continue(Emit(m1, Ev("emit", "", s.id, s.n)))
                    [] s.op = "throw" -> Throw(m1, s.err)

startAll(m) ==
    Continue(Push([m EXCEPT !.isRunning = TRUE],
                  [fn |-> "startAll",
                   steps |-> Starts(Ascending(1)) \o <<Step("emit", "started", 0, NoError)>>]))

StopAllSteps == Stops(Descending(1)) \o <<Step("emit", "stopped", 0, NoError)>>

stopAll(m) ==
    Continue(Push([m EXCEPT !.isRunning = FALSE], [fn |-> "stopAll", steps |-> StopAllSteps]))

\* restartProcess restarting every process.
restartProcess_Everyone(m, id) ==
    LET restartInfo == [m.restartCounts[id] EXCEPT !.count = @ + 1] IN
    Continue(Push([m EXCEPT !.restartCounts[id] = restartInfo],
                  [fn |-> "restartProcess",
                   steps |-> Stops(Descending(1)) \o Starts(Ascending(1))]))

restartProcess(m, id) ==
    LET restartInfo == [m.restartCounts[id] EXCEPT !.count = @ + 1]
        backoff == IF hasConfig(id)
                   THEN <<Step("delay", id, config.children[id].backoffMs * restartInfo.count,
                               NoError)>>
                   ELSE <<>>
    IN  Continue(Push([m EXCEPT !.restartCounts[id] = restartInfo],
                      [fn |-> "restartProcess",
                       steps |-> backoff \o <<Step("stop", id, 0, NoError),
                                              Step("start", id, 0, NoError)>>]))

\* restartAll starting the processes last first.
restartAll_StartBackward(m) ==
    Continue(Push(m, [fn |-> "restartAll",
                      steps |-> Stops(Descending(1)) \o Starts(Descending(1))]))

restartAll(m) ==
    Continue(Push(m, [fn |-> "restartAll",
                      steps |-> Stops(Descending(1)) \o Starts(Ascending(1))]))

\* restartFromProcess stopping in registration order.
restartFromProcess_StopForward(m, crashedId) ==
    LET crashedIndex == indexOf(crashedId) IN
    Continue(Push(m, [fn |-> "restartFromProcess",
                      steps |-> Stops(Ascending(crashedIndex))
                                \o Starts(Ascending(crashedIndex))]))

restartFromProcess(m, crashedId) ==
    LET crashedIndex == indexOf(crashedId) IN
    Continue(Push(m, [fn |-> "restartFromProcess",
                      steps |-> Stops(Descending(crashedIndex))
                                \o Starts(Ascending(crashedIndex))]))

\* escalate returning normally after it stopped everything.
escalate_NoRaise(m, error) ==
    LET r == m.supervisorRestarts
        r1 == IF m.t - r.windowStart > config.restartWindow
              THEN [count |-> 0, windowStart |-> m.t] ELSE r
        r2 == [r1 EXCEPT !.count = @ + 1]
        m1 == [m EXCEPT !.supervisorRestarts = r2]
    IN  IF r2.count >= config.maxRestarts
        THEN Continue(Push(Emit([m1 EXCEPT !.isRunning = FALSE],
                                Ev("emit", "", "supervisorCrashed", r2.count)),
                           [fn |-> "escalate", steps |-> StopAllSteps]))
        ELSE restartAll(Emit(m1, Ev("emit", "", "escalated", r2.count)))

escalate(m, error) ==
    LET r == m.supervisorRestarts
        r1 == IF m.t - r.windowStart > config.restartWindow
              THEN [count |-> 0, windowStart |-> m.t] ELSE r
        r2 == [r1 EXCEPT !.count = @ + 1]
        m1 == [m EXCEPT !.supervisorRestarts = r2]
    IN  IF r2.count >= config.maxRestarts
        THEN Continue(Push(Emit([m1 EXCEPT !.isRunning = FALSE],
                                Ev("emit", "", "supervisorCrashed", r2.count)),
                           [fn |-> "escalate",
                            steps |-> StopAllSteps \o <<Step("throw", "", 0, error)>>]))
        ELSE restartAll(Emit(m1, Ev("emit", "", "escalated", r2.count)))

\* handleCrash.  The trace keeps what was decided for the crash and which crash
\* of the process it is in the process's current restart window.
handleCrash(m, processId, error) ==
    IF ~m.isRunning THEN Continue(Emit(m, Ev("crash", processId, "dropped", 0)))
    ELSE LET se == shouldEscalate(m.restartCounts[processId], processId, m.t)
             nth == (IF se.reset THEN 0 ELSE m.seen[processId]) + 1
             m1 == [m EXCEPT !.restartCounts[processId] = se.restartInfo,
                             !.seen[processId] = nth]
         IN  IF se.result
             THEN escalate(Emit(m1, Ev("crash", processId, "escalate", nth)), error)
             ELSE LET m2 == Emit(m1, Ev("crash", processId, "restart", nth)) IN
                  CASE config.strategy = "OneForOne" -> restartProcess(m2, processId)
                    [] config.strategy = "OneForAll" -> restartAll(m2)
                    [] config.strategy = "RestForOne" -> restartFromProcess(m2, processId)

----------------------------------------------------------------------------
(* submitWithRetry of index.ts *)

\* The patterns isRetryableError looks for in the lower-cased message.
retryablePatterns ==
    {"network", "timeout", "connection", "ECONNREFUSED", "ETIMEDOUT",
     "temporarily unavailable"}

\* pattern.toLowerCase()
toLowerCase(pattern) ==
    CASE pattern = "ECONNREFUSED" -> "econnrefused"
      [] pattern = "ETIMEDOUT" -> "etimedout"
      [] OTHER -> pattern

\* An error submitTx rejects with, by the words its lower-cased message holds.
SubmitError(name, words) == [name |-> name, lower |-> words]

NoSubmitError == SubmitError("undefined", {})

SubmitErrors ==
    {SubmitError("Network unreachable", {"network", "unreachable"}),
     SubmitError("connect ECONNREFUSED", {"connect", "econnrefused"}),
     SubmitError("Transaction validation failed", {"transaction", "validation", "failed"})}

\* isRetryableError with every error classified retryable.
isRetryableError_Always(error) == TRUE

isRetryableError(error) ==
    \E pattern \in retryablePatterns : toLowerCase(pattern) \in error.lower

\* A RetryConfig.
RetryConfigs ==
    [maxAttempts : 1..MaxRetryAttempts, baseDelayMs : 1..MaxBaseDelay,
     maxDelayMs : 1..MaxDelayCap]

Min(a, b) == IF a <= b THEN a ELSE b

\* The delay submitWithRetry sleeps after the failed attempt.
backoffDelay(cfg, attempt) ==
    Min(cfg.baseDelayMs * 2 ^ (attempt - 1), cfg.maxDelayMs)

\* The Result of submitWithRetry that wraps lastError.
SubmissionFailed(cfg, lastError) ==
    [ok |-> FALSE, value |-> "", code |-> "NETWORK_ERROR", attempts |-> cfg.maxAttempts,
     cause |-> lastError]

SubmissionOk ==
    [ok |-> TRUE, value |-> "", code |-> "", attempts |-> 0, cause |-> NoSubmitError]

\* The transaction hashes submitTx resolves with.
TxHashes == {"hash1", "hash2"}

\* { ok: true, value: txHash }
Submitted(txHash) == [SubmissionOk EXCEPT !.value = txHash]

\* No call of submitWithRetry.
NoRetry ==
    [pc |-> "idle", cfg |-> [maxAttempts |-> 1, baseDelayMs |-> 1, maxDelayMs |-> 1],
     deadline |-> 0, attempt |-> 0, lastError |-> NoSubmitError, wake |-> 0,
     calls |-> <<>>, errors |-> <<>>, delays |-> <<>>, hashes |-> <<>>,
     result |-> SubmissionOk]

\* The loop of submitWithRetry allowing one attempt more than maxAttempts.
loopHead_OneMore(r, attempt, t) ==
    IF attempt <= r.cfg.maxAttempts + 1
    THEN [r EXCEPT !.pc = "submitting", !.attempt = attempt, !.calls = Append(@, t)]
    ELSE [r EXCEPT !.pc = "done", !.attempt = attempt,
                   !.result = SubmissionFailed(r.cfg, r.lastError)]

\* The loop of submitWithRetry at its head: the next attempt calls submitTx at
\* time t, or the loop is over and the failure is returned.
loopHead(r, attempt, t) ==
    IF attempt <= r.cfg.maxAttempts
    THEN [r EXCEPT !.pc = "submitting", !.attempt = attempt, !.calls = Append(@, t)]
    ELSE [r EXCEPT !.pc = "done", !.attempt = attempt,
                   !.result = SubmissionFailed(r.cfg, r.lastError)]

\* The catch block of the loop on the rejection of submitTx with error.
onRejected(r, error, t) ==
    LET r1 == [r EXCEPT !.lastError = error, !.errors = Append(@, error)] IN
    IF ~isRetryableError(error)
    THEN [r1 EXCEPT !.pc = "done", !.result = SubmissionFailed(r.cfg, error)]
    ELSE [r1 EXCEPT !.pc = "sleeping",
                    !.wake = t + backoffDelay(r.cfg, r.attempt),
                    !.delays = Append(@, backoffDelay(r.cfg, r.attempt))]

IndexIdle == retry = NoRetry

----------------------------------------------------------------------------
(* Royalty shares and the royalty distribution builders *)

\* Basis points of 100%.
MAX_BASIS_POINTS == 10000
\* The lovelace RoyaltyTransactionBuilder leaves at the script.
MIN_UTXO_LOVELACE == 2000000
\* The lovelace buildDistributeTransaction leaves at the script.
MIN_SCRIPT_BALANCE == 2000000
\* The least amount buildDistributeTransaction distributes.
MIN_DISTRIBUTION == 5000000
\* The script address the continuing output is paid to; recipients are 1, 2, ...
ScriptAddress == 0

ShareInputs == {0, 1, 1000, 2000, 7000, 9999, 10000}

ThresholdInputs == {0, 1000000}

LovelaceInputs == {0, 9000009, 100000000, 102000000}

RoyaltyRecipient(address, shareBp, minThreshold) ==
    [address |-> address, shareBp |-> shareBp, minThreshold |-> minThreshold]

\* Recipient lists of 0..MaxRecipients entries, the i-th paid at address i.
RecipientLists ==
    UNION {{[i \in 1..n |-> RoyaltyRecipient(i, f[i][1], f[i][2])] :
                f \in [1..n -> ShareInputs \X ThresholdInputs]} : n \in 0..MaxRecipients}

RoyaltyInputs == [value : LovelaceInputs, recipients : RecipientLists]

\* recipients.reduce((acc, r) => acc + r.shareBp, 0)
RECURSIVE SumShares(_)
SumShares(recipients) ==
    IF recipients = <<>> THEN 0
    ELSE SumShares(SubSeq(recipients, 1, Len(recipients) - 1))
            + recipients[Len(recipients)].shareBp

validateShares_AtMost(recipients) == SumShares(recipients) <= MAX_BASIS_POINTS

\* validateShares of types.ts
validateShares(recipients) == SumShares(recipients) = MAX_BASIS_POINTS

\* validateShares of types/index.ts
validateSharesBps(recipients) == SumShares(recipients) = 10000

\* (a * b) / c of bigints with a >= 0, b >= 0, c > 0.  A bigint product never
\* overflows; the quotient is computed here from the quotient and remainder of a
\* by c, which gives the same number and keeps every intermediate small.
BigMulDiv(a, b, c) == (a \div c) * b + ((a % c) * b) \div c

calculateShare_RoundUp(total, shareBp) ==
    BigMulDiv(total, shareBp, MAX_BASIS_POINTS)
        + (IF ((total % MAX_BASIS_POINTS) * shareBp) % MAX_BASIS_POINTS = 0 THEN 0 ELSE 1)

\* calculateShare of types.ts
calculateShare(total, shareBp) == BigMulDiv(total, shareBp, MAX_BASIS_POINTS)

\* calculatePayout of types/index.ts
calculatePayout(totalAmount, shareBps) == BigMulDiv(totalAmount, shareBps, 10000)

meetsThreshold(amount, recipient) == amount >= recipient.minThreshold

TxOut(address, value) == [address |-> address, value |-> value]

\* What a call of a royalty function is recorded as.
RCall(fn, ok, code, inputs, outputs) ==
    [fn |-> fn, ok |-> ok, code |-> code, inputs |-> inputs, outputs |-> outputs,
     shareBp |-> 0, valid |-> FALSE, amount |-> 0]

NoRCall == RCall("none", FALSE, "", 0, <<>>)

NoRoyaltyInput == [value |-> 0, recipients |-> <<>>]

\* The NFTs a royalty configuration may apply to.
PolicyIds == {"policy1", "policy2"}
AssetNames == {"asset1", "asset2"}

\* The keys a configuration's admin may have.
AdminKeys == {"admin1", "admin2"}

\* The recipient lists of a configuration: three whose shares sum to 10000 and
\* one whose shares sum to 9000.
ConfigRecipients ==
    {<<RoyaltyRecipient("r1", 10000, 0)>>,
     <<RoyaltyRecipient("r1", 7000, 0), RoyaltyRecipient("r2", 2000, 0),
       RoyaltyRecipient("r3", 1000, 0)>>,
     <<RoyaltyRecipient("r1", 9999, 0), RoyaltyRecipient("r2", 1, 0)>>,
     <<RoyaltyRecipient("r1", 7000, 0), RoyaltyRecipient("r2", 2000, 0)>>}

\* RoyaltyConfig of types.ts
RoyaltyConfig(nftPolicyId, nftAssetName, recipients, version, adminKey, lockUntil) ==
    [nftPolicyId |-> nftPolicyId, nftAssetName |-> nftAssetName,
     recipients |-> recipients, version |-> version, adminKey |-> adminKey,
     lockUntil |-> lockUntil]

RoyaltyConfigs ==
    {RoyaltyConfig(p, a, r, v, "admin1", "null") :
        p \in PolicyIds, a \in AssetNames, r \in ConfigRecipients, v \in 0..MaxVersion}

NoConfig == RoyaltyConfig("", "", <<>>, 0, "", "null")

\* The Result of a builder of a configuration transaction: the transaction's
\* redeemer, the datum of its continuing output and its required signer.
Built(redeemer, datum, signer) ==
    [ok |-> TRUE, code |-> "", redeemer |-> redeemer, datum |-> datum, signer |-> signer]

NotBuilt(code, none) ==
    [ok |-> FALSE, code |-> code, redeemer |-> "", datum |-> none, signer |-> ""]

\* buildConfigUpdate accepting any version of the new configuration.
buildConfigUpdate_AnyVersion(oldConfig, newConfig, completes) ==
    IF ~validateShares(newConfig.recipients) THEN NotBuilt("INVALID_SHARES", NoConfig)
    ELSE IF \/ newConfig.nftPolicyId # oldConfig.nftPolicyId
            \/ newConfig.nftAssetName # oldConfig.nftAssetName
    THEN NotBuilt("INVALID_DATUM", NoConfig)
    ELSE IF ~completes THEN NotBuilt("SCRIPT_ERROR", NoConfig)
    ELSE Built("UpdateConfig", newConfig, oldConfig.adminKey)

\* RoyaltyTransactionBuilder.buildConfigUpdate; completes tells whether
\* meshTxBuilder.complete() resolves.
buildConfigUpdate(oldConfig, newConfig, completes) ==
    IF ~validateShares(newConfig.recipients) THEN NotBuilt("INVALID_SHARES", NoConfig)
    ELSE IF newConfig.version # oldConfig.version + 1
    THEN NotBuilt("INVALID_DATUM", NoConfig)
    ELSE IF \/ newConfig.nftPolicyId # oldConfig.nftPolicyId
            \/ newConfig.nftAssetName # oldConfig.nftAssetName
    THEN NotBuilt("INVALID_DATUM", NoConfig)
    ELSE IF ~completes THEN NotBuilt("SCRIPT_ERROR", NoConfig)
    ELSE Built("UpdateConfig", newConfig, oldConfig.adminKey)

\* A RoyaltyConfig UTXO: the configuration it was created with, the one it
\* holds, the accepted updates so far and the last call of buildConfigUpdate.
ConfigUtxo(c) ==
    [original |-> c, config |-> c, updates |-> 0, fn |-> "none", oldConfig |-> NoConfig,
     newConfig |-> NoConfig, res |-> NotBuilt("", NoConfig)]

NoConfigUtxo == ConfigUtxo(NoConfig)

\* RoyaltyDatumV1 of types/index.ts
RoyaltyDatumV1(version, nftPolicyId, recipients, admin, isLocked) ==
    [version |-> version, nftPolicyId |-> nftPolicyId, recipients |-> recipients,
     admin |-> admin, isLocked |-> isLocked]

NoRoyaltyDatum == RoyaltyDatumV1(0, "", <<>>, "", FALSE)

\* RoyaltyBuilder.buildUpdateConfig; found tells whether the fetcher returns the
\* royalty UTXO, completes whether complete() resolves.
buildUpdateConfig(currentDatum, newRecipients, found, completes) ==
    IF ~validateSharesBps(newRecipients) THEN NotBuilt("shares", NoRoyaltyDatum)
    ELSE IF ~found THEN NotBuilt("not found", NoRoyaltyDatum)
    ELSE IF ~completes THEN NotBuilt("complete", NoRoyaltyDatum)
    ELSE Built("UpdateConfig", [currentDatum EXCEPT !.recipients = newRecipients],
               currentDatum.admin)

\* RoyaltyBuilder.buildLockConfig
buildLockConfig(currentDatum, found, completes) ==
    IF currentDatum.isLocked THEN NotBuilt("already locked", NoRoyaltyDatum)
    ELSE IF ~found THEN NotBuilt("not found", NoRoyaltyDatum)
    ELSE IF ~completes THEN NotBuilt("complete", NoRoyaltyDatum)
    ELSE Built("LockConfig", [currentDatum EXCEPT !.isLocked = TRUE], currentDatum.admin)

\* A RoyaltyDatum UTXO: the datum it holds and the last call of RoyaltyBuilder
\* on it.
DatumUtxo(d) == [datum |-> d, fn |-> "none", res |-> NotBuilt("", NoRoyaltyDatum)]

NoDatumUtxo == DatumUtxo(NoRoyaltyDatum)

RoyaltyIdle ==
    /\ rin = NoRoyaltyInput
    /\ rlast = NoRCall
    /\ configUtxo = NoConfigUtxo
    /\ datumUtxo = NoDatumUtxo

\* The recipient outputs a builder adds in its loop: one for each recipient whose
\* amount is paid, in the order of the list.
recipientOutputs(amounts) ==
    LET paid == SelectSeq(amounts, LAMBDA a : a.pays)
    IN  [i \in 1..Len(paid) |-> TxOut(paid[i].address, paid[i].amount)]

\* RoyaltyTransactionBuilder.buildDistribution of index.ts on the royalty UTXO of
\* the given lovelace; completes tells whether meshTxBuilder.complete() resolves.
buildDistribution(value, recipients, completes) ==
    IF ~validateShares(recipients)
    THEN RCall("buildDistribution", FALSE, "INVALID_SHARES", 0, <<>>)
    ELSE LET availableAmount == value - MIN_UTXO_LOVELACE
             shareAmount(r) == calculateShare(availableAmount, r.shareBp)
             amounts == [i \in 1..Len(recipients) |->
                            [address |-> recipients[i].address,
                             amount |-> shareAmount(recipients[i]),
                             pays |-> meetsThreshold(shareAmount(recipients[i]),
                                                     recipients[i])]]
             outputs == recipientOutputs(amounts)
                            \o <<TxOut(ScriptAddress, MIN_UTXO_LOVELACE)>>
         IN  IF availableAmount <= 0
             THEN RCall("buildDistribution", FALSE, "INSUFFICIENT_FUNDS", 0, <<>>)
             ELSE IF completes
                  THEN RCall("buildDistribution", TRUE, "", 1, outputs)
                  ELSE RCall("buildDistribution", FALSE, "SCRIPT_ERROR", 1, outputs)

\* calculatePayouts of transactions/royalty.ts
calculatePayouts(recipients, total) ==
    [i \in 1..Len(recipients) |->
        [address |-> recipients[i].address,
         amount |-> BigMulDiv(total, recipients[i].shareBp, 10000),
         minPayout |-> recipients[i].minThreshold]]

\* buildDistributeTransaction of transactions/royalty.ts
buildDistributeTransaction(value, recipients) ==
    LET distributable == value - MIN_SCRIPT_BALANCE IN
    IF distributable < MIN_DISTRIBUTION
    THEN RCall("buildDistributeTransaction", FALSE, "Insufficient funds", 0, <<>>)
    ELSE LET payouts == calculatePayouts(recipients, distributable)
             paid == SelectSeq(payouts, LAMBDA p : p.amount >= p.minPayout)
             outputs == [i \in 1..Len(paid) |-> TxOut(paid[i].address, paid[i].amount)]
                            \o <<TxOut(ScriptAddress, MIN_SCRIPT_BALANCE)>>
         IN  RCall("buildDistributeTransaction", TRUE, "", 1, outputs)

\* RoyaltyBuilder.buildDistribute of builders/royalty.ts; found tells whether the
\* fetcher returns the royalty UTXO, completes whether complete() resolves.
buildDistribute(value, recipients, found, completes) ==
    IF ~found
    THEN RCall("buildDistribute", FALSE, "Royalty UTXO not found", 0, <<>>)
    ELSE LET totalLovelace == value
             payoutAmount(r) == calculatePayout(totalLovelace, r.shareBp)
             skipped(r) == r.minThreshold # 0 /\ payoutAmount(r) < r.minThreshold
             amounts == [i \in 1..Len(recipients) |->
                            [address |-> recipients[i].address,
                             amount |-> payoutAmount(recipients[i]),
                             pays |-> ~skipped(recipients[i])]]
             outputs == recipientOutputs(amounts)
         IN  IF completes
             THEN RCall("buildDistribute", TRUE, "", 1, outputs)
             ELSE RCall("buildDistribute", FALSE, "complete", 1, outputs)

----------------------------------------------------------------------------
(* HTLCBuilder of builders/htlc.ts *)

\* buildClaim lets the transaction expire this long before the deadline,
\* and at most this long after it is built.
TTL_MARGIN_MS == 1000
MAX_TTL_MS == 3600000

\* blake2b256 of utils/cbor.ts: 64 hex characters, the digest a function of the
\* input alone, and no collision among the secrets of the model.
blake2b256(input) == [len |-> HASH_HEX_LEN, digest |-> (input * 3 + 1) % 7]

HTLCDatumV1(recipient, refundAddress, h, deadline, lockedAmount) ==
    [recipient |-> recipient, refundAddress |-> refundAddress, secretHash |-> h,
     deadline |-> deadline, lockedAmount |-> lockedAmount]

\* The promise of a builder method: resolved with the unsigned transaction that
\* was built, or rejected with an Error.
BOk(tx) == [ok |-> TRUE, error |-> "", tx |-> tx]

BErr(msg) == [ok |-> FALSE, error |-> msg, tx |-> MeshEmpty]

\* webCrypto: whether globalThis.crypto.subtle is defined, in which case
\* blake2b256 throws; completes: whether complete() resolves.
HTLCBuilder_buildClaim(datum, secret, webCrypto, completes, t) ==
    IF webCrypto
    THEN BErr("Use blake2b256Async in browser environment")
    ELSE IF blake2b256(secret) # datum.secretHash
    THEN BErr("Secret does not match the hash in the HTLC")
    ELSE IF ~completes
    THEN BErr("complete")
    ELSE BOk([MeshEmpty EXCEPT !.txIns = 1, !.txOuts = 1,
                               !.invalidHereafter = Min(datum.deadline - TTL_MARGIN_MS,
                                                        t + MAX_TTL_MS)])

HTLCBuilder_buildRefund(datum, completes, t) ==
    IF t < datum.deadline
    THEN BErr("Cannot refund HTLC before deadline")
    ELSE IF ~completes
    THEN BErr("complete")
    ELSE BOk([MeshEmpty EXCEPT !.txIns = 1, !.txOuts = 1,
                               !.invalidBefore = datum.deadline])

NoBCall ==
    [op |-> "none", at |-> 0, datum |-> HTLCDatumV1("", "", ShortHash, 0, 0),
     secret |-> 0, res |-> BErr("")]

----------------------------------------------------------------------------
(* The state machine *)

NoDatum == EscrowDatum(KeyHash("alice"), KeyHash("bob"), ShortHash, 0, 0, "Locked")

NoCall ==
    [op |-> "none", at |-> 0, datum |-> NoDatum, secret |-> 0, caller |-> "",
     res |-> Fail("")]

NoHCall ==
    [op |-> "none", at |-> 0, datum |-> NoSwap.cardanoHTLC, secret |-> 0,
     pre |-> MeshEmpty, res |-> HErr("")]

InitEscrow ==
    /\ now = 0
    /\ leg \in LegDatums
    /\ attempts = 0
    /\ succeeded = 0
    /\ last = NoCall
    /\ mesh = MeshEmpty
    /\ swap = NoSwap
    /\ hlast = NoHCall
    /\ blast = NoBCall
    /\ IndexIdle
    /\ RoyaltyIdle
    /\ SupervisorIdle

InitBuilders ==
    /\ now = 0
    /\ leg = NoDatum
    /\ attempts = 0
    /\ succeeded = 0
    /\ last = NoCall
    /\ mesh = MeshEmpty
    /\ swap = NoSwap
    /\ hlast = NoHCall
    /\ blast = NoBCall
    /\ IndexIdle
    /\ RoyaltyIdle
    /\ SupervisorIdle

\* The system clock advances.
Tick ==
    /\ \E t \in Times : t > now /\ now' = t
    /\ UNCHANGED <<escrowVars, htlcVars, supVars, indexVars, royaltyVars>>

\* One spending attempt on the leg: the builder is called on the leg's datum at
\* the current time, and a transaction that was built is applied by the ledger.
Attempt(op, secret, caller, res) ==
    /\ attempts < MaxAttempts
    /\ last' = [op |-> op, at |-> now, datum |-> leg, secret |-> secret,
                caller |-> caller, res |-> res]
    /\ leg' = IF res.success THEN LedgerApply(leg, op) ELSE leg
    /\ attempts' = attempts + 1
    /\ succeeded' = IF res.success THEN succeeded + 1 ELSE succeeded
    /\ UNCHANGED <<now, htlcVars, supVars, indexVars, royaltyVars>>

Claim ==
    \E secret \in Secrets :
        Attempt("Claim", secret, "", buildClaimEscrowTransaction(leg, secret, now))

Refund ==
    \E caller \in Parties :
        Attempt("Refund", 0, caller, buildRefundEscrowTransaction(leg, caller, now))

Cancel ==
    \E caller \in Parties :
        Attempt("Cancel", 0, caller, buildCancelEscrowTransaction(leg, caller, now))

Create ==
    \E dep \in Parties, secret \in Secrets, amount \in Amounts, deadline \in Deadlines :
        /\ last' = [op |-> "Create", at |-> now,
                    datum |-> CreatedDatum(KeyHash(dep), KeyHash("bob"), secret, amount, deadline),
                    secret |-> secret, caller |-> dep,
                    res |-> buildCreateEscrowTransaction(KeyHash(dep), KeyHash("bob"),
                                                         secret, amount, deadline, now)]
        /\ UNCHANGED <<now, leg, attempts, succeeded, htlcVars, supVars, indexVars, royaltyVars>>

Validate ==
    \E datum \in ValidateDatums :
        /\ last' = [op |-> "Validate", at |-> now, datum |-> datum, secret |-> 0,
                    caller |-> "", res |-> validateEscrowDatum(datum, now)]
        /\ UNCHANGED <<now, leg, attempts, succeeded, htlcVars, supVars, indexVars, royaltyVars>>

\* The spending builders, called on one escrow leg.
NextEscrow == Tick \/ Claim \/ Refund \/ Cancel

SpecEscrow == InitEscrow /\ [][NextEscrow]_vars

\* Escrow creation and datum validation.
NextCreate == Tick \/ Create \/ Validate

SpecCreate == InitBuilders /\ [][NextCreate]_vars

HCall(op, datum, secret, out) ==
    /\ hlast' = [op |-> op, at |-> now, datum |-> datum, secret |-> secret,
                 pre |-> mesh, res |-> out.res]
    /\ mesh' = out.mesh
    /\ UNCHANGED <<now, swap, blast, escrowVars, supVars, indexVars, royaltyVars>>

HtlcCreate ==
    \E datum \in HtlcDatums, nUtxos \in 0..MaxUtxos, completes \in BOOLEAN :
        HCall("Create", datum, 0,
              HTLCTransactionBuilder_buildCreate(mesh, datum, nUtxos, completes, now))

HtlcClaim ==
    \E datum \in HtlcDatums, secret \in Secrets, completes \in BOOLEAN :
        HCall("Claim", datum, secret,
              HTLCTransactionBuilder_buildClaim(mesh, datum, secret, completes, now))

HtlcRefund ==
    \E datum \in HtlcDatums, completes \in BOOLEAN :
        HCall("Refund", datum, 0,
              HTLCTransactionBuilder_buildRefund(mesh, datum, completes, now))

\* generateAtomicSwapParams reads the clock twice; the clock may advance in between.
\* One swap is generated in a behaviour.
GenerateSwap ==
    \E cMs \in 1..MaxDuration, bMs \in 1..MaxDuration, secret \in Secrets, t2 \in Times :
        /\ ~swap.made
        /\ t2 >= now
        /\ swap' = generateAtomicSwapParams(cMs, bMs, secret, now, t2)
        /\ now' = t2
        /\ UNCHANGED <<mesh, hlast, blast, escrowVars, supVars, indexVars, royaltyVars>>

\* buildClaim on the Cardano HTLC of the generated swap.
SwapClaim ==
    \E secret \in Secrets, completes \in BOOLEAN :
        /\ swap.made
        /\ HCall("Claim", swap.cardanoHTLC, secret,
                 HTLCTransactionBuilder_buildClaim(mesh, swap.cardanoHTLC, secret,
                                                   completes, now))

\* The HTLC builder, called on input datums.
NextHTLC == Tick \/ HtlcCreate \/ HtlcClaim \/ HtlcRefund

SpecHTLC == InitBuilders /\ [][NextHTLC]_vars

\* An atomic swap: its parameters are generated, then its Cardano HTLC is claimed.
NextSwap == Tick \/ GenerateSwap \/ SwapClaim

SpecSwap == InitBuilders /\ [][NextSwap]_vars

----------------------------------------------------------------------------
(* The supervisor's state machine *)

InitSupervisor ==
    /\ now = 0
    /\ leg = NoDatum
    /\ attempts = 0
    /\ succeeded = 0
    /\ last = NoCall
    /\ mesh = MeshEmpty
    /\ swap = NoSwap
    /\ hlast = NoHCall
    /\ blast = NoBCall
    /\ IndexIdle
    /\ RoyaltyIdle
    /\ \E c \in SupervisorConfigs :
           Constructed(c, [crashes |-> MaxCrashes, startFails |-> MaxStartFails,
                           startAlls |-> MaxStartAlls, slots |-> 1,
                           stopAlls |-> 0, stopFails |-> 0])

\* The supervisor's fields and the call in slot t after the call has run.
Apply(t, m) ==
    /\ isRunning' = m.isRunning
    /\ restartCounts' = m.restartCounts
    /\ supervisorRestarts' = m.supervisorRestarts
    /\ seen' = m.seen
    /\ tasks' = [tasks EXCEPT ![t] = m.tk]

\* The slot a new call takes: the first one that holds no call in progress.
FreeSlot(t) ==
    /\ t <= fuel.slots
    /\ tasks[t].status # "running"
    /\ \A u \in 1..(t - 1) : tasks[u].status = "running"

Awaits(t, kind) == tasks[t].status = "running" /\ tasks[t].wait.kind = kind

\* The call in slot t when what it awaits has settled.
Resumed(t) == Machine([tasks[t] EXCEPT !.wait = NoWait])

\* The owner calls startAll().
StartAllCall ==
    \E t \in 1..MaxTasks :
        /\ FreeSlot(t)
        /\ fuel.startAlls > 0
        /\ Apply(t, startAll(Machine(NewTask("startAll", ""))))
        /\ fuel' = [fuel EXCEPT !.startAlls = @ - 1]
        /\ UNCHANGED <<now, config, escrowVars, htlcVars, indexVars, royaltyVars>>

\* A crash of a process is reported: handleCrash(id, error) is called.
CrashCall ==
    \E t \in 1..MaxTasks, id \in {"A", "B", "C"} :
        /\ FreeSlot(t)
        /\ fuel.crashes > 0
        /\ Apply(t, handleCrash(Machine(NewTask("handleCrash", id)), id, RunError(id)))
        /\ fuel' = [fuel EXCEPT !.crashes = @ - 1]
        /\ UNCHANGED <<now, config, escrowVars, htlcVars, indexVars, royaltyVars>>

\* process.start() resolves: startProcess returns.
StartResolves ==
    \E t \in 1..MaxTasks :
        /\ Awaits(t, "start")
        /\ Apply(t, Continue(Resumed(t)))
        /\ UNCHANGED <<now, config, fuel, escrowVars, htlcVars, indexVars, royaltyVars>>

\* process.start() rejects and startProcess swallows the error.
StartRejects_Swallowed ==
    \E t \in 1..MaxTasks :
        /\ Awaits(t, "start")
        /\ fuel.startFails > 0
        /\ Apply(t, Continue(Emit(Resumed(t), Ev("rejected", tasks[t].wait.id, "", 0))))
        /\ fuel' = [fuel EXCEPT !.startFails = @ - 1]
        /\ UNCHANGED <<now, config, escrowVars, htlcVars, indexVars, royaltyVars>>

\* process.start() rejects: startProcess hands the error to handleCrash.
StartRejects ==
    \E t \in 1..MaxTasks :
        /\ Awaits(t, "start")
        /\ fuel.startFails > 0
        /\ Apply(t, handleCrash(Emit(Resumed(t), Ev("rejected", tasks[t].wait.id, "", 0)),
                                tasks[t].wait.id, StartError(tasks[t].wait.id)))
        /\ fuel' = [fuel EXCEPT !.startFails = @ - 1]
        /\ UNCHANGED <<now, config, escrowVars, htlcVars, indexVars, royaltyVars>>

\* process.stop() settles: stopProcess returns whether it resolved or rejected.
StopSettles ==
    \E t \in 1..MaxTasks :
        /\ Awaits(t, "stop")
        /\ Apply(t, Continue(Resumed(t)))
        /\ UNCHANGED <<now, config, fuel, escrowVars, htlcVars, indexVars, royaltyVars>>

\* The timer of delay(ms) fires.
TimerFires ==
    \E t \in 1..MaxTasks :
        /\ Awaits(t, "delay")
        /\ now >= tasks[t].wait.wake
        /\ Apply(t, Continue(Resumed(t)))
        /\ UNCHANGED <<now, config, fuel, escrowVars, htlcVars, indexVars, royaltyVars>>

\* The supervisor's clock advances.
ClockTick ==
    /\ now < MaxClock
    /\ now' = now + 1
    /\ UNCHANGED <<escrowVars, htlcVars, supVars, indexVars, royaltyVars>>

NextSupervisor ==
    \/ StartAllCall \/ CrashCall \/ StartResolves \/ StartRejects
    \/ StopSettles \/ TimerFires \/ ClockTick

\* The calls are made one after the other: each has ended before the next.
SpecSupervisor == InitSupervisor /\ [][NextSupervisor]_vars

InitOverlap ==
    /\ now = 0
    /\ leg = NoDatum
    /\ attempts = 0
    /\ succeeded = 0
    /\ last = NoCall
    /\ mesh = MeshEmpty
    /\ swap = NoSwap
    /\ hlast = NoHCall
    /\ blast = NoBCall
    /\ IndexIdle
    /\ RoyaltyIdle
    /\ \E c \in SupervisorConfigs :
           Constructed(c, [crashes |-> MaxOverlapCrashes, startFails |-> 0,
                           startAlls |-> MaxStartAlls, slots |-> MaxTasks,
                           stopAlls |-> 0, stopFails |-> 0])

\* A call may be made while earlier calls are suspended in an await; start()
\* never rejects.
NextOverlap ==
    \/ StartAllCall \/ CrashCall \/ StartResolves
    \/ StopSettles \/ TimerFires \/ ClockTick

SpecOverlap == InitOverlap /\ [][NextOverlap]_vars

\* The owner calls stopAll().
StopAllCall ==
    \E t \in 1..MaxTasks :
        /\ FreeSlot(t)
        /\ fuel.stopAlls > 0
        /\ Apply(t, stopAll(Machine(NewTask("stopAll", ""))))
        /\ fuel' = [fuel EXCEPT !.stopAlls = @ - 1]
        /\ UNCHANGED <<now, config, escrowVars, htlcVars, indexVars, royaltyVars>>

\* process.stop() rejects and the error leaves stopProcess.
StopRejects_Propagated ==
    \E t \in 1..MaxTasks :
        /\ Awaits(t, "stop")
        /\ fuel.stopFails > 0
        /\ Apply(t, Throw(Emit(Resumed(t), Ev("stopRejected", tasks[t].wait.id, "", 0)),
                          StopError(tasks[t].wait.id)))
        /\ fuel' = [fuel EXCEPT !.stopFails = @ - 1]
        /\ UNCHANGED <<now, config, escrowVars, htlcVars, indexVars, royaltyVars>>

\* process.stop() rejects: stopProcess logs the error and returns.  The trace
\* keeps the rejection.
StopRejects ==
    \E t \in 1..MaxTasks :
        /\ Awaits(t, "stop")
        /\ fuel.stopFails > 0
        /\ Apply(t, Continue(Emit(Resumed(t), Ev("stopRejected", tasks[t].wait.id, "", 0))))
        /\ fuel' = [fuel EXCEPT !.stopFails = @ - 1]
        /\ UNCHANGED <<now, config, escrowVars, htlcVars, indexVars, royaltyVars>>

InitShutdown ==
    /\ now = 0
    /\ leg = NoDatum
    /\ attempts = 0
    /\ succeeded = 0
    /\ last = NoCall
    /\ mesh = MeshEmpty
    /\ swap = NoSwap
    /\ hlast = NoHCall
    /\ blast = NoBCall
    /\ IndexIdle
    /\ RoyaltyIdle
    /\ \E c \in SupervisorConfigs :
           Constructed(c, [crashes |-> MaxShutdownCrashes, startFails |-> 0,
                           startAlls |-> MaxStartAlls, slots |-> 1,
                           stopAlls |-> MaxStopAlls, stopFails |-> MaxStopFails])

\* The owner shuts the supervisor down; stop() may reject, start() does not.
NextShutdown ==
    \/ StartAllCall \/ StopAllCall \/ CrashCall \/ StartResolves
    \/ StopSettles \/ StopRejects \/ TimerFires \/ ClockTick

SpecShutdown == InitShutdown /\ [][NextShutdown]_vars

\* The owner calls stopAll while a crash is being handled.
InitStopOverlap ==
    /\ now = 0
    /\ leg = NoDatum
    /\ attempts = 0
    /\ succeeded = 0
    /\ last = NoCall
    /\ mesh = MeshEmpty
    /\ swap = NoSwap
    /\ hlast = NoHCall
    /\ blast = NoBCall
    /\ IndexIdle
    /\ RoyaltyIdle
    /\ \E c \in SupervisorConfigs :
           Constructed(c, [crashes |-> MaxShutdownCrashes, startFails |-> 0,
                           startAlls |-> MaxStartAlls, slots |-> MaxTasks,
                           stopAlls |-> MaxStopAlls, stopFails |-> 0])

NextStopOverlap ==
    \/ StartAllCall \/ StopAllCall \/ CrashCall \/ StartResolves
    \/ StopSettles \/ TimerFires \/ ClockTick

SpecStopOverlap == InitStopOverlap /\ [][NextStopOverlap]_vars

\* The child whose start() rejects on every call.
FailingChild == "B"

InitFailing ==
    /\ now = 0
    /\ leg = NoDatum
    /\ attempts = 0
    /\ succeeded = 0
    /\ last = NoCall
    /\ mesh = MeshEmpty
    /\ swap = NoSwap
    /\ hlast = NoHCall
    /\ blast = NoBCall
    /\ IndexIdle
    /\ RoyaltyIdle
    /\ \E c \in SupervisorConfigs :
           Constructed(c, [crashes |-> 0, startFails |-> MaxFailingStarts,
                           startAlls |-> MaxStartAlls, slots |-> 1,
                           stopAlls |-> 0, stopFails |-> 0])

\* start() of the failing child rejects.
FailingStartRejects ==
    /\ \E t \in 1..MaxTasks : Awaits(t, "start") /\ tasks[t].wait.id = FailingChild
    /\ StartRejects

\* start() of any other process resolves.
HealthyStartResolves ==
    /\ \E t \in 1..MaxTasks : Awaits(t, "start") /\ tasks[t].wait.id # FailingChild
    /\ StartResolves

\* start() and stop() settle at once: time passes only while a call waits in
\* a backoff delay, and the clock stays inside the restart windows.
WindowTick ==
    /\ now < MaxWindow
    /\ \E t \in 1..MaxTasks : Awaits(t, "delay") /\ now < tasks[t].wait.wake
    /\ ClockTick

NextFailing ==
    \/ StartAllCall \/ FailingStartRejects \/ HealthyStartResolves
    \/ StopSettles \/ TimerFires \/ WindowTick

\* startAll is called, every start() and stop() settles, every timer fires and
\* the clock goes on.
SpecFailing ==
    /\ InitFailing /\ [][NextFailing]_vars
    /\ WF_vars(StartAllCall) /\ WF_vars(FailingStartRejects)
    /\ WF_vars(HealthyStartResolves) /\ WF_vars(StopSettles)
    /\ WF_vars(TimerFires) /\ WF_vars(WindowTick)

----------------------------------------------------------------------------
(* submitWithRetry's state machine *)

\* submitWithRetry(submitter, signedTx, config) is called with a signed claim
\* transaction whose HTLC times out at deadline and has not timed out yet.
RetryCall ==
    \E cfg \in RetryConfigs, deadline \in 1..MaxDeadline :
        /\ retry.pc = "idle"
        /\ now < deadline
        /\ retry' = loopHead([NoRetry EXCEPT !.cfg = cfg, !.deadline = deadline], 1, now)
        /\ UNCHANGED <<now, escrowVars, htlcVars, supVars, royaltyVars>>

\* submitter.submitTx resolves: the transaction hash is returned.
SubmitResolves ==
    \E txHash \in TxHashes :
        /\ retry.pc = "submitting"
        /\ retry' = [retry EXCEPT !.pc = "done", !.hashes = Append(@, txHash),
                                  !.result = Submitted(txHash)]
        /\ UNCHANGED <<now, escrowVars, htlcVars, supVars, royaltyVars>>

\* submitter.submitTx rejects.
SubmitRejects ==
    \E error \in SubmitErrors :
        /\ retry.pc = "submitting"
        /\ retry' = onRejected(retry, error, now)
        /\ UNCHANGED <<now, escrowVars, htlcVars, supVars, royaltyVars>>

\* The timer of sleep(delay) fires and the loop goes on.
SleepEnds ==
    /\ retry.pc = "sleeping"
    /\ now' = IF now > retry.wake THEN now ELSE retry.wake
    /\ retry' = loopHead(retry, retry.attempt + 1, now')
    /\ UNCHANGED <<escrowVars, htlcVars, supVars, royaltyVars>>

NextRetry == RetryCall \/ SubmitResolves \/ SubmitRejects \/ SleepEnds \/ ClockTick

SpecRetry == InitBuilders /\ [][NextRetry]_vars

----------------------------------------------------------------------------
(* The royalty functions' state machine *)

\* A royalty UTXO and the recipient list of its datum.
InitRoyalty ==
    /\ now = 0
    /\ leg = NoDatum
    /\ attempts = 0
    /\ succeeded = 0
    /\ last = NoCall
    /\ mesh = MeshEmpty
    /\ swap = NoSwap
    /\ hlast = NoHCall
    /\ blast = NoBCall
    /\ IndexIdle
    /\ SupervisorIdle
    /\ rin \in RoyaltyInputs
    /\ rlast = NoRCall
    /\ configUtxo = NoConfigUtxo
    /\ datumUtxo = NoDatumUtxo

\* What a call of a function returning a value is recorded as.
Returned(fn, shareBp, valid, amount) ==
    [RCall(fn, TRUE, "", 0, <<>>) EXCEPT !.shareBp = shareBp, !.valid = valid,
                                         !.amount = amount]

ValidateShares ==
    /\ rlast' = Returned("validateShares", 0, validateShares(rin.recipients), 0)
    /\ UNCHANGED <<now, rin, configUtxo, datumUtxo, escrowVars, htlcVars, supVars, indexVars>>

ValidateSharesBps ==
    /\ rlast' = Returned("validateSharesBps", 0, validateSharesBps(rin.recipients), 0)
    /\ UNCHANGED <<now, rin, configUtxo, datumUtxo, escrowVars, htlcVars, supVars, indexVars>>

\* calculateShare on the lovelace of the UTXO and the share of one recipient.
CalculateShare ==
    \E i \in 1..Len(rin.recipients) :
        /\ rlast' = Returned("calculateShare", rin.recipients[i].shareBp, FALSE,
                             calculateShare(rin.value, rin.recipients[i].shareBp))
        /\ UNCHANGED <<now, rin, configUtxo, datumUtxo, escrowVars, htlcVars, supVars, indexVars>>

CalculatePayout ==
    \E i \in 1..Len(rin.recipients) :
        /\ rlast' = Returned("calculatePayout", rin.recipients[i].shareBp, FALSE,
                             calculatePayout(rin.value, rin.recipients[i].shareBp))
        /\ UNCHANGED <<now, rin, configUtxo, datumUtxo, escrowVars, htlcVars, supVars, indexVars>>

BuildDistribution ==
    \E completes \in BOOLEAN :
        /\ rlast' = buildDistribution(rin.value, rin.recipients, completes)
        /\ UNCHANGED <<now, rin, configUtxo, datumUtxo, escrowVars, htlcVars, supVars, indexVars>>

BuildDistributeTransaction ==
    /\ rlast' = buildDistributeTransaction(rin.value, rin.recipients)
    /\ UNCHANGED <<now, rin, configUtxo, datumUtxo, escrowVars, htlcVars, supVars, indexVars>>

BuildDistribute ==
    \E found \in BOOLEAN, completes \in BOOLEAN :
        /\ rlast' = buildDistribute(rin.value, rin.recipients, found, completes)
        /\ UNCHANGED <<now, rin, configUtxo, datumUtxo, escrowVars, htlcVars, supVars, indexVars>>

NextRoyalty ==
    \/ ValidateShares \/ ValidateSharesBps \/ CalculateShare \/ CalculatePayout
    \/ BuildDistribution \/ BuildDistributeTransaction \/ BuildDistribute

SpecRoyalty == InitRoyalty /\ [][NextRoyalty]_vars

----------------------------------------------------------------------------
(* Configuration updates and locks: the state machines *)

\* A royalty UTXO whose configuration's shares sum to 10000.
InitConfigUpdate ==
    /\ now = 0
    /\ leg = NoDatum
    /\ attempts = 0
    /\ succeeded = 0
    /\ last = NoCall
    /\ mesh = MeshEmpty
    /\ swap = NoSwap
    /\ hlast = NoHCall
    /\ blast = NoBCall
    /\ IndexIdle
    /\ SupervisorIdle
    /\ rin = NoRoyaltyInput
    /\ rlast = NoRCall
    /\ \E c \in RoyaltyConfigs : validateShares(c.recipients) /\ configUtxo = ConfigUtxo(c)
    /\ datumUtxo = NoDatumUtxo

\* buildConfigUpdate is called with the configuration of the UTXO as oldConfig;
\* the transaction it returns is submitted and the UTXO then holds newConfig.
BuildConfigUpdate ==
    \E newConfig \in RoyaltyConfigs, completes \in BOOLEAN :
        LET res == buildConfigUpdate(configUtxo.config, newConfig, completes) IN
        /\ configUtxo' = [configUtxo EXCEPT
                             !.fn = "buildConfigUpdate",
                             !.oldConfig = configUtxo.config,
                             !.newConfig = newConfig,
                             !.res = res,
                             !.config = IF res.ok THEN res.datum ELSE @,
                             !.updates = IF res.ok THEN @ + 1 ELSE @]
        /\ UNCHANGED <<now, rin, rlast, datumUtxo, escrowVars, htlcVars, supVars, indexVars>>

NextConfigUpdate == BuildConfigUpdate

SpecConfigUpdate == InitConfigUpdate /\ [][NextConfigUpdate]_vars

\* A royalty UTXO as buildInitialize creates it: version 1, not locked.
InitLockConfig ==
    /\ now = 0
    /\ leg = NoDatum
    /\ attempts = 0
    /\ succeeded = 0
    /\ last = NoCall
    /\ mesh = MeshEmpty
    /\ swap = NoSwap
    /\ hlast = NoHCall
    /\ blast = NoBCall
    /\ IndexIdle
    /\ SupervisorIdle
    /\ rin = NoRoyaltyInput
    /\ rlast = NoRCall
    /\ configUtxo = NoConfigUtxo
    /\ \E p \in PolicyIds, r \in ConfigRecipients, k \in AdminKeys :
           /\ validateSharesBps(r)
           /\ datumUtxo = DatumUtxo(RoyaltyDatumV1(1, p, r, k, FALSE))

\* The transaction a call of RoyaltyBuilder returns is submitted: the UTXO then
\* holds the datum of its continuing output.
DatumCall(fn, res) ==
    /\ datumUtxo' = [datum |-> IF res.ok THEN res.datum ELSE datumUtxo.datum,
                     fn |-> fn, res |-> res]
    /\ UNCHANGED <<now, rin, rlast, configUtxo, escrowVars, htlcVars, supVars, indexVars>>

BuildUpdateConfig ==
    \E newRecipients \in ConfigRecipients, found \in BOOLEAN, completes \in BOOLEAN :
        DatumCall("buildUpdateConfig",
                  buildUpdateConfig(datumUtxo.datum, newRecipients, found, completes))

BuildLockConfig ==
    \E found \in BOOLEAN, completes \in BOOLEAN :
        DatumCall("buildLockConfig", buildLockConfig(datumUtxo.datum, found, completes))

NextLockConfig == BuildUpdateConfig \/ BuildLockConfig

SpecLockConfig == InitLockConfig /\ [][NextLockConfig]_vars

----------------------------------------------------------------------------
(* The three builders of one HTLC *)

\* The secret an escrow leg is locked with.
SecretOf(datum) == CHOOSE s \in Secrets : hashSecret(s) = datum.secretHash

\* The same lock as the datum HTLCTransactionBuilder and HTLCBuilder are given.
HtlcOf(datum) == HTLCDatum("bob", "alice", sha256(SecretOf(datum)), datum.deadline)

HtlcV1Of(datum) ==
    HTLCDatumV1("bob", "alice", blake2b256(SecretOf(datum)), datum.deadline, datum.amount)

\* A locked leg, and the time at which the builders are called on it.
InitCompare ==
    /\ now \in Times
    /\ leg \in {EscrowDatum(KeyHash("alice"), KeyHash("bob"), hashSecret(s), dl,
                            MIN_ESCROW_AMOUNT, "Locked") : s \in Secrets, dl \in Deadlines}
    /\ attempts = 0
    /\ succeeded = 0
    /\ last = NoCall
    /\ mesh = MeshEmpty
    /\ swap = NoSwap
    /\ hlast = NoHCall
    /\ blast = NoBCall
    /\ IndexIdle
    /\ RoyaltyIdle
    /\ SupervisorIdle

\* An escrow builder is called on the leg; the transaction is not submitted.
EscrowCall(op, secret, caller, res) ==
    /\ last' = [op |-> op, at |-> now, datum |-> leg, secret |-> secret,
                caller |-> caller, res |-> res]
    /\ UNCHANGED <<now, leg, attempts, succeeded, htlcVars, supVars, indexVars, royaltyVars>>

EscrowBuildClaim ==
    \E secret \in Secrets :
        EscrowCall("Claim", secret, "", buildClaimEscrowTransaction(leg, secret, now))

EscrowBuildRefund ==
    EscrowCall("Refund", 0, "alice", buildRefundEscrowTransaction(leg, "alice", now))

MeshBuildClaim ==
    \E secret \in Secrets, completes \in BOOLEAN :
        HCall("Claim", HtlcOf(leg), secret,
              HTLCTransactionBuilder_buildClaim(mesh, HtlcOf(leg), secret, completes, now))

MeshBuildRefund ==
    \E completes \in BOOLEAN :
        HCall("Refund", HtlcOf(leg), 0,
              HTLCTransactionBuilder_buildRefund(mesh, HtlcOf(leg), completes, now))

BCall(op, datum, secret, res) ==
    /\ blast' = [op |-> op, at |-> now, datum |-> datum, secret |-> secret, res |-> res]
    /\ UNCHANGED <<now, mesh, swap, hlast, escrowVars, supVars, indexVars, royaltyVars>>

BuilderBuildClaim ==
    \E secret \in Secrets, webCrypto \in BOOLEAN, completes \in BOOLEAN :
        BCall("Claim", HtlcV1Of(leg), secret,
              HTLCBuilder_buildClaim(HtlcV1Of(leg), secret, webCrypto, completes, now))

BuilderBuildRefund ==
    \E completes \in BOOLEAN :
        BCall("Refund", HtlcV1Of(leg), 0,
              HTLCBuilder_buildRefund(HtlcV1Of(leg), completes, now))

NextCompare ==
    \/ EscrowBuildClaim \/ EscrowBuildRefund \/ MeshBuildClaim \/ MeshBuildRefund
    \/ BuilderBuildClaim \/ BuilderBuildRefund

SpecCompare == InitCompare /\ [][NextCompare]_vars

----------------------------------------------------------------------------
(* Properties of the escrow spending builders (SpecEscrow) *)

SpendOps == {"Claim", "Refund", "Cancel"}

\* The last call was the spending builder op, on a datum in state Locked.
LockedCall(op) == last.op = op /\ last.datum.state = "Locked"

SecretMatches == hashSecret(last.secret) = last.datum.secretHash

\* C1: on a Locked datum, buildClaimEscrowTransaction succeeds if and only if the
\* secret hashes to datum.secretHash and now < datum.deadline; in particular a
\* claim with the correct secret at now = deadline fails.
C1_ClaimIffSecretAndBeforeDeadline ==
    LockedCall("Claim") =>
        (last.res.success <=> (SecretMatches /\ last.at < last.datum.deadline))

\* C2: on a Locked datum, buildRefundEscrowTransaction succeeds if and only if
\* now >= datum.deadline + GRACE_PERIOD_MS; it fails before the deadline and in
\* [deadline, deadline + grace).
C2_RefundIffAfterGrace ==
    LockedCall("Refund") =>
        /\ last.res.success <=> last.at >= last.datum.deadline + GRACE_PERIOD_MS
        /\ last.at < last.datum.deadline => ~last.res.success
        /\ (last.datum.deadline <= last.at
              /\ last.at < last.datum.deadline + GRACE_PERIOD_MS) => ~last.res.success

\* A refund built at exactly deadline + grace.
C2_Witness ==
    /\ LockedCall("Refund")
    /\ last.at = last.datum.deadline + GRACE_PERIOD_MS
    /\ last.res.success

\* C3: on a Locked datum and with the correct secret, no Claim, Refund or Cancel
\* succeeds at a time in [deadline, deadline + grace), and at no time can Claim
\* and Refund both succeed.
C3_DeadZoneAndExclusion ==
    /\ (/\ last.op \in SpendOps
        /\ last.datum.state = "Locked"
        /\ last.op = "Claim" => SecretMatches
        /\ last.datum.deadline <= last.at
        /\ last.at < last.datum.deadline + GRACE_PERIOD_MS) => ~last.res.success
    /\ \A secret \in Secrets, caller \in Parties :
           ~(/\ buildClaimEscrowTransaction(leg, secret, now).success
             /\ buildRefundEscrowTransaction(leg, caller, now).success)

\* C4: buildCancelEscrowTransaction succeeds if and only if the datum is Locked,
\* now < datum.deadline and the caller is the datum's depositor.
C4_CancelIffLockedBeforeDeadlineByDepositor ==
    last.op = "Cancel" =>
        (last.res.success <=>
            /\ last.datum.state = "Locked"
            /\ last.at < last.datum.deadline
            /\ last.caller = last.datum.depositor.who)

\* C5: on a datum whose state is Claiming, Completed or Refunded, each of the
\* three spending builders fails, for every secret and every time.
C5_NotLockedFails ==
    (last.op \in SpendOps /\ last.datum.state # "Locked") => ~last.res.success

\* A claim refused for the state alone: the secret is right and the deadline ahead.
C5_Witness ==
    /\ last.op = "Claim"
    /\ last.datum.state \in {"Claiming", "Completed", "Refunded"}
    /\ SecretMatches
    /\ last.at < last.datum.deadline
    /\ ~last.res.success

\* C6: of the attempts made on one leg at most one succeeds; a successful Claim
\* takes the leg from Locked to Completed, a successful Refund or Cancel from
\* Locked to Refunded, and no attempt made after it succeeds.
C6_AtMostOneSuccess ==
    /\ succeeded <= 1
    /\ succeeded = 1 => leg.state \in {"Completed", "Refunded"}
    /\ (last.op \in SpendOps /\ last.res.success) =>
           /\ last.datum.state = "Locked"
           /\ leg.state = IF last.op = "Claim" THEN "Completed" ELSE "Refunded"

\* After a successful claim, a refund attempted past deadline + grace is refused.
C6_Witness ==
    /\ succeeded = 1
    /\ attempts > 1
    /\ leg.state = "Completed"
    /\ last.op = "Refund"
    /\ last.at >= last.datum.deadline + GRACE_PERIOD_MS
    /\ ~last.res.success

----------------------------------------------------------------------------
(* Properties of escrow creation (SpecCreate) *)

----------------------------------------------------------------------------
(* Properties of HTLCTransactionBuilder (SpecHTLC) *)

\* C8: buildCreate fails with INVALID_DATUM and leaves the transaction builder as
\* it was whenever datum.timeout <= now or the secret hash does not have exactly
\* 64 characters; it reaches transaction assembly only when timeout > now and the
\* hash has 64 characters.
C8_CreateValidation ==
    hlast.op = "Create" =>
        LET bad == \/ hlast.datum.timeout <= hlast.at
                   \/ hlast.datum.secretHash.len # HASH_HEX_LEN
        IN /\ bad => (hlast.res = HErr("INVALID_DATUM") /\ mesh = hlast.pre)
           /\ (hlast.res.ok \/ hlast.res.code = "SCRIPT_ERROR" \/ mesh # hlast.pre) => ~bad

\* A create refused at now = timeout, the builder still holding an earlier build.
C8_Witness ==
    /\ hlast.op = "Create"
    /\ hlast.datum.timeout = hlast.at
    /\ hlast.res = HErr("INVALID_DATUM")
    /\ hlast.pre.txIns > 0
    /\ mesh = hlast.pre

----------------------------------------------------------------------------
(* Properties of the atomic swap (SpecSwap) *)

\* C9: for bitcoinTimeoutMs < cardanoTimeoutMs the returned bitcoinTimeout is
\* strictly less than the returned cardanoHTLC.timeout, whatever the clock does
\* while generateAtomicSwapParams runs.
C9_BitcoinTimeoutEarlier ==
    (swap.made /\ swap.bitcoinTimeoutMs < swap.cardanoTimeoutMs) =>
        swap.bitcoinTimeout < swap.cardanoHTLC.timeout

\* C10: in a swap generated with bitcoinTimeoutMs < cardanoTimeoutMs, at a time
\* now < bitcoinTimeout (an in-time claim of the Bitcoin leg reveals the secret)
\* buildClaim on the Cardano HTLC with the swap's secret passes its secret check
\* and its timeout check.
C10_RevealedSecretStillClaims ==
    (/\ swap.made
     /\ swap.bitcoinTimeoutMs < swap.cardanoTimeoutMs
     /\ hlast.op = "Claim"
     /\ hlast.datum = swap.cardanoHTLC
     /\ hlast.secret = swap.secret
     /\ hlast.at < swap.bitcoinTimeout) =>
        hlast.res.code \notin {"INVALID_REDEEMER", "TIMEOUT"}

----------------------------------------------------------------------------
(* Properties of the Supervisor (SpecSupervisor, SpecOverlap) *)

Calls == 1..MaxTasks

Entries(t) == {tasks[t].trace[i] : i \in 1..Len(tasks[t].trace)}

\* The crashes handed to handleCrash by the calls in the slots.
Crashes == UNION {{e \in Entries(t) : e.k = "crash"} : t \in Calls}

\* C11: under OneForOne, with maxRestarts = N for a process, the first N
\* crashes of the process handled in one restart window are each answered by a
\* restart of the process and every later crash in the window is escalated.
C11_RestartsThenEscalates ==
    config.strategy = "OneForOne" =>
        \A e \in Crashes :
            (e.d # "dropped" /\ hasConfig(e.id)) =>
                e.d = IF e.n <= config.children[e.id].maxRestarts
                      THEN "restart" ELSE "escalate"

\* The third crash of A in one window, with maxRestarts = 2, has been escalated
\* and its two earlier crashes were answered by restarts (count = 2).
C11_Witness ==
    /\ config.strategy = "OneForOne"
    /\ config.children["A"].maxRestarts = 2
    /\ restartCounts["A"].count = 2
    /\ \E e \in Crashes : e.id = "A" /\ e.n = 3 /\ e.d = "escalate"

IsCall(e) == e.k \in {"start", "stop"}

IsEscalation(e) == e.k = "emit" /\ e.d \in {"escalated", "supervisorCrashed"}

\* The call in slot t is handleCrash(id, error) called from outside.
HandlesCrashOf(t, id) == tasks[t].kind = "handleCrash" /\ tasks[t].id = id

\* C12 as stated: under OneForOne, handling the crashes of A, the third one that
\* escalates included, never calls stop() or start() on B.
C12_SiblingNeverTouched ==
    config.strategy = "OneForOne" =>
        \A t \in Calls :
            HandlesCrashOf(t, "A") =>
                \A e \in Entries(t) : IsCall(e) => e.id # "B"

\* C12 amended: under OneForOne, handling a crash of a process calls stop() or
\* start() on another process only after the crash was escalated, and a handling
\* that escalated and has ended has called stop() on every process.
C12_SiblingTouchedOnlyByEscalation ==
    config.strategy = "OneForOne" =>
        \A t \in Calls :
            tasks[t].kind = "handleCrash" =>
                /\ \A i \in 1..Len(tasks[t].trace) :
                       (IsCall(tasks[t].trace[i]) /\ tasks[t].trace[i].id # tasks[t].id) =>
                           \E j \in 1..(i - 1) : IsEscalation(tasks[t].trace[j])
                /\ (tasks[t].status = "done" /\ \E e \in Entries(t) : IsEscalation(e)) =>
                       \A id \in {"A", "B", "C"} :
                           \E e \in Entries(t) : e.k = "stop" /\ e.id = id

\* The third crash of A (maxRestarts = 2) was escalated and B was stopped.
C12_Witness ==
    /\ config.strategy = "OneForOne"
    /\ config.children["A"].maxRestarts = 2
    /\ \E t \in Calls :
           /\ HandlesCrashOf(t, "A")
           /\ tasks[t].status = "done"
           /\ \E e \in Entries(t) : e.k = "crash" /\ e.id = "A" /\ e.n = 3 /\ e.d = "escalate"
           /\ \E e \in Entries(t) : e.k = "stop" /\ e.id = "B"

\* The calls of start() and stop() the call in slot t has made, in order.
CallSeq(t) ==
    LET c == SelectSeq(tasks[t].trace, IsCall)
    IN  [j \in 1..Len(c) |-> <<c[j].k, c[j].id>>]

IsPrefix(a, b) == Len(a) <= Len(b) /\ \A j \in 1..Len(a) : a[j] = b[j]

\* The call in slot t handles the crash it was called with by a restart, and no
\* start() has been rejected while it did.
PlainRestart(t) ==
    /\ tasks[t].kind = "handleCrash"
    /\ tasks[t].trace[1].d = "restart"
    /\ \A i \in 2..Len(tasks[t].trace) : tasks[t].trace[i].k # "crash"

\* stop() on the processes n down to i, then start() on i up to n.
StopDownStartUp(i) ==
    LET n == NumProcesses
        len == n - i + 1
    IN  [j \in 1..(2 * len) |->
            IF j <= len THEN <<"stop", ProcessIds[n + 1 - j]>>
            ELSE <<"start", ProcessIds[i + (j - len) - 1]>>]

\* C13: under RestForOne, handling a crash of the process at index i calls
\* stop() on the processes n-1 down to i and then start() on i up to n-1, in
\* that order, and calls nothing on the processes before i.
C13_RestForOneOrder ==
    config.strategy = "RestForOne" =>
        \A t \in Calls :
            PlainRestart(t) =>
                /\ IsPrefix(CallSeq(t), StopDownStartUp(indexOf(tasks[t].id)))
                /\ tasks[t].status = "done" =>
                       CallSeq(t) = StopDownStartUp(indexOf(tasks[t].id))

\* A crash of B among [A, B, C] has been handled: stop C, stop B, start B,
\* start C.
C13_Witness ==
    /\ config.strategy = "RestForOne"
    /\ \E t \in Calls :
           /\ HandlesCrashOf(t, "B")
           /\ PlainRestart(t)
           /\ tasks[t].status = "done"
           /\ CallSeq(t) = <<(<<"stop", "C">>), (<<"stop", "B">>),
                             (<<"start", "B">>), (<<"start", "C">>)>>

\* What the strategy restarts for a crash of id: every process under
\* OneForAll, the crashed process alone under OneForOne.
StrategyCalls(id) ==
    IF config.strategy = "OneForAll" THEN StopDownStartUp(1)
    ELSE <<(<<"stop", id>>), (<<"start", id>>)>>

\* C14: under OneForAll, handling a crash calls stop() on every process in
\* reverse registration order and then start() on every process in
\* registration order; under OneForOne it calls stop() and then start() on the
\* crashed process only.
C14_OneForAllOrder ==
    config.strategy \in {"OneForAll", "OneForOne"} =>
        \A t \in Calls :
            PlainRestart(t) =>
                /\ IsPrefix(CallSeq(t), StrategyCalls(tasks[t].id))
                /\ tasks[t].status = "done" => CallSeq(t) = StrategyCalls(tasks[t].id)

\* A crash of B has been handled under OneForAll: C, B, A were stopped, then
\* A, B, C started.
C14_Witness ==
    /\ config.strategy = "OneForAll"
    /\ \E t \in Calls :
           /\ HandlesCrashOf(t, "B")
           /\ PlainRestart(t)
           /\ tasks[t].status = "done"
           /\ CallSeq(t) = <<(<<"stop", "C">>), (<<"stop", "B">>), (<<"stop", "A">>),
                             (<<"start", "A">>), (<<"start", "B">>), (<<"start", "C">>)>>

\* C15: under every strategy, a crash of a process that has already crashed
\* maxRestarts times in its current restart window is escalated, not answered
\* by the strategy's restart.
C15_EveryStrategyCounts ==
    \A e \in Crashes :
        (e.d # "dropped" /\ hasConfig(e.id)
            /\ e.n > config.children[e.id].maxRestarts) => e.d = "escalate"

\* The calls of start() and stop() the call in slot t has made after entry i of
\* its trace.
CallsAfter(t, i) ==
    LET c == SelectSeq(SubSeq(tasks[t].trace, i + 1, Len(tasks[t].trace)), IsCall)
    IN  [j \in 1..Len(c) |-> <<c[j].k, c[j].id>>]

\* stop() on every process, last registered first.
ReverseStops == [j \in 1..NumProcesses |-> <<"stop", ProcessIds[NumProcesses + 1 - j]>>]

\* The error of the crash that entry i - 1 of the trace of the call in slot t
\* records: the one the call was made with, or the rejection of start().
CrashError(t, i) ==
    IF i = 2 /\ tasks[t].kind = "handleCrash"
    THEN RunError(tasks[t].trace[i - 1].id)
    ELSE StartError(tasks[t].trace[i - 1].id)

Escalations == UNION {{e \in Entries(t) : IsEscalation(e)} : t \in Calls}

\* C17: the supervisor's budget is counted as a process's is: with maxRestarts
\* = M, the first M escalations inside one window restart the tree and only
\* the next one stops everything and raises.
C17_AggregateBudgetSameRule ==
    \A e \in Escalations :
        e.d = IF e.n <= config.maxRestarts THEN "escalated" ELSE "supervisorCrashed"

\* The call in slot t is a handleCrash that is suspended in an await.
Suspended(t) == tasks[t].kind = "handleCrash" /\ tasks[t].status = "running"

\* C18: crash handling is serialized: while one call of handleCrash is
\* suspended in an await, no other call of handleCrash has performed a step
\* (a budget check, an emit, a stop() or a start()).
C18_CrashHandlingSerialized ==
    \A t \in Calls, u \in Calls :
        (t # u /\ Suspended(t) /\ tasks[u].kind = "handleCrash"
            /\ tasks[u].status = "running") =>
                tasks[t].trace = <<>> \/ tasks[u].trace = <<>>

\* C19: no crash is dropped: a call handleCrash(id, error) that has ended has
\* either restarted id (start() was called on id, alone or with its group or
\* the tree) or raised the error; it never returns normally having done neither.
C19_NoCrashDropped ==
    \A t \in Calls :
        (tasks[t].kind = "handleCrash" /\ tasks[t].status = "done") =>
            \/ tasks[t].result = "raised"
            \/ \E e \in Entries(t) : e.k = "start" /\ e.id = tasks[t].id

\* start() on every process in registration order.
ForwardStarts == [j \in 1..NumProcesses |-> <<"start", ProcessIds[j]>>]

\* The calls of start() and stop() among the first i entries of the trace of
\* the call in slot t.
CallsUpTo(t, i) ==
    LET c == SelectSeq(SubSeq(tasks[t].trace, 1, i), IsCall)
    IN  [j \in 1..Len(c) |-> <<c[j].k, c[j].id>>]

\* The first process the strategy stops when it restarts for a crash of id.
FirstStopped(id) ==
    IF config.strategy = "OneForOne" THEN id ELSE ProcessIds[NumProcesses]

\* C20: startAll calls start() on the processes one at a time in registration
\* order, and a start() that rejects is handed to handleCrash for that
\* process, which answers it as it answers a reported crash: an escalation when
\* the budget check says so, the strategy's restart otherwise.
C20_StartAllSequential ==
    \A t \in Calls :
        tasks[t].kind = "startAll" =>
            LET tr == tasks[t].trace
                rejected == {i \in 1..Len(tr) : tr[i].k = "rejected"}
                quiet == IF rejected = {} THEN Len(tr)
                         ELSE (CHOOSE i \in rejected : \A j \in rejected : i <= j) - 1
            IN  /\ IsPrefix(CallsUpTo(t, quiet), ForwardStarts)
                /\ (rejected = {} /\ tasks[t].status = "done") =>
                       CallSeq(t) = ForwardStarts /\ tasks[t].result = "ok"
                /\ \A i \in rejected :
                       /\ tr[i - 1] = Ev("start", tr[i].id, "", 0)
                       /\ i < Len(tr)
                       /\ tr[i + 1].k = "crash"
                       /\ tr[i + 1].id = tr[i].id
                       /\ tr[i + 1].d \in {"restart", "escalate"}
                       /\ (i + 1 < Len(tr) /\ tr[i + 1].d = "escalate") =>
                              IsEscalation(tr[i + 2])
                       /\ (i + 1 < Len(tr) /\ tr[i + 1].d = "restart") =>
                              tr[i + 2] = Ev("stop", FirstStopped(tr[i].id), "", 0)

\* startAll has ended after start() of B rejected: A and B had been started in
\* order, the rejection went to handleCrash, and C was started afterwards.
C20_Witness ==
    \E t \in Calls :
        /\ tasks[t].kind = "startAll"
        /\ tasks[t].status = "done"
        /\ tasks[t].result = "ok"
        /\ \E i \in 1..Len(tasks[t].trace) :
               /\ tasks[t].trace[i] = Ev("rejected", "B", "", 0)
               /\ CallsUpTo(t, i) = <<(<<"start", "A">>), (<<"start", "B">>)>>
               /\ tasks[t].trace[i + 1] = Ev("crash", "B", "restart", 1)
        /\ tasks[t].trace[Len(tasks[t].trace) - 1] = Ev("start", "C", "", 0)

----------------------------------------------------------------------------
(* Properties of the Supervisor's shutdown (SpecShutdown) *)

\* C21: stopAll calls stop() on every process exactly once, in reverse
\* registration order, whether or not a stop() rejects; until it ends it waits
\* for nothing but a stop() to settle; it ends without raising and with the
\* supervisor not running.
C21_StopAllTolerant ==
    \A t \in Calls :
        tasks[t].kind = "stopAll" =>
            /\ IsPrefix(CallSeq(t), ReverseStops)
            /\ tasks[t].status = "running" => tasks[t].wait.kind = "stop"
            /\ tasks[t].status = "done" =>
                   /\ CallSeq(t) = ReverseStops
                   /\ tasks[t].result = "ok"
                   /\ ~isRunning

\* stopAll has ended on a started supervisor although stop() of C, the first
\* process it stops, rejected: B and A were stopped after it.
C21_Witness ==
    \E t \in Calls :
        /\ tasks[t].kind = "stopAll"
        /\ tasks[t].status = "done"
        /\ fuel.startAlls < MaxStartAlls
        /\ tasks[t].trace[2] = Ev("stopRejected", "C", "", 0)
        /\ CallSeq(t) = ReverseStops

----------------------------------------------------------------------------
(* Properties of submitWithRetry (SpecRetry) *)

\* submitWithRetry has returned after every attempt it could make failed with
\* a retryable error.
Exhausted ==
    /\ retry.pc = "done"
    /\ Len(retry.errors) = retry.cfg.maxAttempts
    /\ \A k \in 1..Len(retry.errors) : isRetryableError(retry.errors[k])

\* C22: with maxAttempts = N and submitTx always failing with a retryable
\* error, submitTx is called exactly N times, exactly N-1 delays are waited, the
\* delay after failed attempt k < N being min(baseDelayMs * 2^(k-1), maxDelayMs)
\* and none following the last attempt, and a wrapped failure is returned.
C22_DelaysOnlyBetweenAttempts ==
    Exhausted =>
        /\ Len(retry.calls) = retry.cfg.maxAttempts
        /\ ~retry.result.ok
        /\ retry.delays = [k \in 1..(retry.cfg.maxAttempts - 1) |->
                              Min(retry.cfg.baseDelayMs * 2 ^ (k - 1),
                                  retry.cfg.maxDelayMs)]

\* The errors of the network / timeout / connection class among SubmitErrors.
NetworkClass(error) == error.name \in {"Network unreachable", "connect ECONNREFUSED"}

\* C23: an attempt that fails with a non-retryable error is the last one: the
\* call has returned a failure, no delay was waited after it and submitTx was
\* not called again (one submitTx call and no delay when it is the first
\* attempt); every failed attempt that was followed by another one failed with
\* a retryable error.
C23_NonRetryableAborts ==
    /\ \A k \in 1..Len(retry.errors) :
           ~NetworkClass(retry.errors[k]) =>
               /\ retry.pc = "done"
               /\ ~retry.result.ok
               /\ Len(retry.calls) = k
               /\ Len(retry.delays) = k - 1
    /\ \A k \in 1..(Len(retry.calls) - 1) : NetworkClass(retry.errors[k])

\* A first attempt failed with a non-retryable error although more attempts
\* were allowed: one submitTx call, no delay, a failure returned.
C23_Witness ==
    /\ retry.pc = "done"
    /\ retry.cfg.maxAttempts = 3
    /\ Len(retry.errors) = 1
    /\ ~NetworkClass(retry.errors[1])
    /\ Len(retry.calls) = 1
    /\ retry.delays = <<>>
    /\ ~retry.result.ok

\* C24: the failure submitWithRetry returns wraps the error of the last attempt
\* made, and the attempt count it reports is the number of submitTx calls made.
C24_FailureReportsAttemptsMade ==
    (retry.pc = "done" /\ ~retry.result.ok) =>
        /\ retry.result.cause = retry.errors[Len(retry.errors)]
        /\ retry.result.attempts = Len(retry.calls)

\* C25: the deadline is checked again before every submission attempt: no
\* submitTx call for the claim transaction is made at a time now >= deadline.
C25_DeadlineRecheckedBeforeSubmit ==
    \A k \in 1..Len(retry.calls) : retry.calls[k] < retry.deadline

----------------------------------------------------------------------------
(* Properties of the royalty functions (SpecRoyalty) *)

\* The three builders of a royalty distribution.
DistributionBuilders == {"buildDistribution", "buildDistributeTransaction", "buildDistribute"}

\* C26: every distribution builder rejects a recipient list whose shares do not
\* sum to 10000 basis points, and has built no input and no output by then.
C26_BadSharesRejectedByEveryBuilder ==
    (rlast.fn \in DistributionBuilders /\ SumShares(rin.recipients) # 10000)
        => (~rlast.ok /\ rlast.inputs = 0 /\ rlast.outputs = <<>>)

\* amount is the floor of total * bp / 10000, for total >= 0 and bp >= 0: with
\* total = q * 10000 + r, what amount adds to q * bp is the floor of r * bp / 10000.
IsFloorShare(amount, total, bp) ==
    LET q == total \div 10000
        r == total % 10000
        low == amount - q * bp
    IN  low * 10000 <= r * bp /\ r * bp < (low + 1) * 10000

RECURSIVE SumValues(_)
SumValues(outputs) ==
    IF outputs = <<>> THEN 0 ELSE Head(outputs).value + SumValues(Tail(outputs))

\* No recipient of the list has a minimum threshold, so that each one is paid.
AllPaid == \A i \in 1..Len(rin.recipients) : rin.recipients[i].minThreshold = 0

\* The shares of the recipient list, in order.
SharesOf(recipients) == [i \in 1..Len(recipients) |-> recipients[i].shareBp]

\* The amounts of the outputs, in order.
ValuesOf(outputs) == [i \in 1..Len(outputs) |-> outputs[i].value]

\* C27: calculateShare and calculatePayout return floor(total * bp / 10000) for
\* total >= 0 and 0 <= bp <= 10000: 0 for bp = 0 or total = 0, total for
\* bp = 10000.  The payouts of a list whose shares sum to 10000 add up to at most
\* the total and fall short of it by less than the number of recipients, and
\* shares 7000, 2000, 1000 of 100000000 are 70000000, 20000000, 10000000.
C27_ShareIsFloor ==
    /\ rlast.fn \in {"calculateShare", "calculatePayout"} =>
        /\ IsFloorShare(rlast.amount, rin.value, rlast.shareBp)
        /\ rlast.shareBp = 0 => rlast.amount = 0
        /\ rin.value = 0 => rlast.amount = 0
        /\ rlast.shareBp = 10000 => rlast.amount = rin.value
    /\ (rlast.fn = "buildDistribute" /\ rlast.ok /\ AllPaid
            /\ SumShares(rin.recipients) = 10000) =>
        /\ Len(rlast.outputs) = Len(rin.recipients)
        /\ SumValues(rlast.outputs) <= rin.value
        /\ rin.value - SumValues(rlast.outputs) < Len(rin.recipients)
        /\ (rin.value = 100000000 /\ SharesOf(rin.recipients) = <<7000, 2000, 1000>>)
                => ValuesOf(rlast.outputs) = <<70000000, 20000000, 10000000>>
    /\ (rlast.fn = "buildDistribution" /\ rlast.ok /\ AllPaid) =>
        LET available == rin.value - MIN_UTXO_LOVELACE
            payouts == SubSeq(rlast.outputs, 1, Len(rlast.outputs) - 1)
        IN  /\ Len(payouts) = Len(rin.recipients)
            /\ SumValues(payouts) <= available
            /\ available - SumValues(payouts) < Len(rin.recipients)
            /\ (available = 100000000 /\ SharesOf(rin.recipients) = <<7000, 2000, 1000>>)
                    => ValuesOf(payouts) = <<70000000, 20000000, 10000000>>

\* buildDistribution has split 7000009 lovelace three ways with calculateShare:
\* each share is rounded down and 2 lovelace are left over.
C27_Witness ==
    /\ rlast.fn = "buildDistribution" /\ rlast.ok /\ AllPaid
    /\ rin.value = 9000009
    /\ ValuesOf(rlast.outputs) = <<4900006, 1400001, 700000, MIN_UTXO_LOVELACE>>

\* C28: validateShares returns true exactly when the shares of the list sum to
\* 10000: false below, false above, and false for the empty list.
C28_ValidIffSumIsAll ==
    rlast.fn \in {"validateShares", "validateSharesBps"} =>
        /\ rlast.valid <=> (SumShares(rin.recipients) = 10000)
        /\ SumShares(rin.recipients) < 10000 => ~rlast.valid
        /\ SumShares(rin.recipients) > 10000 => ~rlast.valid
        /\ rin.recipients = <<>> => ~rlast.valid

\* validateShares has accepted a list of three recipients.
C28_Witness ==
    /\ rlast.fn = "validateShares" /\ rlast.valid
    /\ SharesOf(rin.recipients) = <<7000, 2000, 1000>>

\* C29: every distribution buildDistributeTransaction builds conserves value:
\* the recipient outputs and the continuing script output add up to the value
\* of the script UTXO that is spent.
C29_DistributionConservesValue ==
    (rlast.fn = "buildDistributeTransaction" /\ rlast.ok)
        => SumValues(rlast.outputs) = rin.value

----------------------------------------------------------------------------
(* Properties of the builders of one HTLC (SpecCompare) *)

\* The pre-checks of the last call let the build go on: a transaction was
\* returned, or only complete() failed.
EscrowAccepted == last.res.success

MeshAccepted == hlast.res.ok \/ hlast.res.code = "SCRIPT_ERROR"

BuilderAccepted == blast.res.ok \/ blast.res.error = "complete"

\* C30: on the same inputs (secret, now, deadline) the claim pre-checks of
\* buildClaimEscrowTransaction, HTLCTransactionBuilder.buildClaim and
\* HTLCBuilder.buildClaim accept the same cases, and so do the three refund
\* pre-checks; none accepts a claim at now >= deadline or a refund at
\* now < deadline + grace period.
C30_BuildersAgree ==
    /\ (last.op = "Claim" /\ hlast.op = "Claim" /\ last.secret = hlast.secret)
            => (EscrowAccepted <=> MeshAccepted)
    /\ (hlast.op = "Claim" /\ blast.op = "Claim" /\ hlast.secret = blast.secret)
            => (MeshAccepted <=> BuilderAccepted)
    /\ (last.op = "Refund" /\ hlast.op = "Refund") => (EscrowAccepted <=> MeshAccepted)
    /\ (hlast.op = "Refund" /\ blast.op = "Refund") => (MeshAccepted <=> BuilderAccepted)
    /\ (last.op = "Claim" /\ EscrowAccepted) => now < leg.deadline
    /\ (hlast.op = "Claim" /\ MeshAccepted) => now < leg.deadline
    /\ (blast.op = "Claim" /\ BuilderAccepted) => now < leg.deadline
    /\ (last.op = "Refund" /\ EscrowAccepted) => now >= leg.deadline + GRACE_PERIOD_MS
    /\ (hlast.op = "Refund" /\ MeshAccepted) => now >= leg.deadline + GRACE_PERIOD_MS
    /\ (blast.op = "Refund" /\ BuilderAccepted) => now >= leg.deadline + GRACE_PERIOD_MS

----------------------------------------------------------------------------
(* Properties of a child that never starts (SpecFailing) *)

----------------------------------------------------------------------------
(* Properties of a shutdown during crash handling (SpecStopOverlap) *)

\* A stopAll, the owner's or an escalation's, has completed, none is in
\* progress, and startAll has not been called since.
ShutDown ==
    /\ ~isRunning
    /\ \E t \in 1..MaxTasks :
          /\ tasks[t].status = "done"
          /\ tasks[t].kind = "stopAll" \/ tasks[t].result = "raised"
    /\ \A t \in 1..MaxTasks :
          tasks[t].status = "running" =>
              \A i \in 1..Len(tasks[t].stack) :
                  tasks[t].stack[i].fn \notin {"stopAll", "escalate"}

\* The call in slot t, in progress before the step, calls start() in the step.
CallsStart(t) ==
    /\ tasks[t].status = "running"
    /\ tasks'[t] # tasks[t]
    /\ tasks'[t].status = "running" /\ tasks'[t].wait.kind = "start"

\* C32: once stopAll has completed, no call that was in progress calls start()
\* on a process; only a new call of startAll starts processes again.
C32_NoStartAfterStopAll ==
    [][ShutDown => \A t \in 1..MaxTasks : ~CallsStart(t)]_vars

----------------------------------------------------------------------------
(* Further properties of the Supervisor (SpecSupervisor, SpecOverlap) *)

\* The calls of start() and stop() the call in slot t made on process id.
CallsOn(t, id) == SelectSeq(CallSeq(t), LAMBDA c : c[2] = id)

\* C33: in a call of startAll or handleCrash, start() is not called on a
\* process twice with no stop() of that process in between.
C33_StartOnlyFromStopped ==
    \A t \in Calls, id \in {"A", "B", "C"} :
        \A j \in 1..(Len(CallsOn(t, id)) - 1) :
            ~(CallsOn(t, id)[j][1] = "start" /\ CallsOn(t, id)[j + 1][1] = "start")

\* C34: under OneForOne the restart count of a process that has a child config
\* never exceeds the maxRestarts of that config, also when calls of handleCrash
\* for the same process overlap.
C34_CountWithinBudget ==
    config.strategy = "OneForOne" =>
        \A id \in DOMAIN config.children :
            restartCounts[id].count <= config.children[id].maxRestarts

\* Two calls of handleCrash for A are in progress at once under OneForOne, and
\* the restart count of A has reached its budget of 2.
C34_Witness ==
    /\ config.strategy = "OneForOne"
    /\ \A t \in {1, 2} : HandlesCrashOf(t, "A") /\ tasks[t].status = "running"
    /\ config.children["A"].maxRestarts = 2
    /\ restartCounts["A"].count = 2

\* In this step the call in slot t hands a crash of id to handleCrash, which
\* decides d for it.
Handled(t, id, d) ==
    LET old == IF tasks[t].status = "running" THEN Len(tasks[t].trace) ELSE 0 IN
    /\ tasks'[t] # tasks[t]
    /\ \E i \in (old + 1)..Len(tasks'[t].trace) :
           /\ tasks'[t].trace[i].k = "crash"
           /\ tasks'[t].trace[i].id = id
           /\ tasks'[t].trace[i].d = d

\* The number restartProcess adds to the count of the process it restarts.
Increment == IF config.strategy = "OneForOne" THEN 1 ELSE 0

\* C35: a crash of a configured process handled more than restartWindow after
\* the process's windowStart restarts the window (count 0, windowStart now)
\* before the budget check, so the crash is answered by a restart; a crash
\* handled within the window leaves windowStart, and the count the check reads,
\* as they were.  On escalation the supervisor's own window follows the same
\* rule before its count is incremented.
C35_WindowResetsCompletely ==
    [][\A t \in Calls, id \in DOMAIN config.children :
          LET r == restartCounts[id]
              expired == now - r.windowStart > config.children[id].restartWindow
              sr == supervisorRestarts
          IN  /\ (Handled(t, id, "restart") \/ Handled(t, id, "escalate")) =>
                     IF expired
                     THEN /\ Handled(t, id, "restart")
                          /\ restartCounts'[id] = [count |-> Increment, windowStart |-> now]
                     ELSE /\ restartCounts'[id].windowStart = r.windowStart
                          /\ restartCounts'[id].count =
                                 r.count + (IF Handled(t, id, "restart") THEN Increment ELSE 0)
              /\ Handled(t, id, "escalate") =>
                     supervisorRestarts' =
                         IF now - sr.windowStart > config.restartWindow
                         THEN [count |-> 1, windowStart |-> now]
                         ELSE [sr EXCEPT !.count = @ + 1]]_vars

\* A's budget of one restart was used up by a first crash; a second crash of A,
\* handled after the window had expired, was answered by a restart in a window
\* that starts at that time.
C35_Witness ==
    /\ config.strategy = "OneForOne"
    /\ config.children["A"].maxRestarts = 1
    /\ \A t \in {1, 2} : HandlesCrashOf(t, "A") /\ tasks[t].trace[1].d = "restart"
    /\ restartCounts["A"] = [count |-> 1, windowStart |-> now]
    /\ now > config.children["A"].restartWindow

\* The call tk, as handleCrash leaves it, waits ms before it calls start() on
\* id: it awaits delay(ms) now, or delay(ms) is a step of the restart method it
\* is in that comes before the method's start() of id.
DelaysBeforeStart(tk, id, ms) ==
    \/ tk.wait.kind = "delay" /\ tk.wait.wake = now + ms
    \/ /\ tk.stack # <<>>
       /\ LET steps == Head(tk.stack).steps IN
          \E i \in 1..Len(steps) :
              /\ steps[i].op = "delay" /\ steps[i].n = ms
              /\ \A j \in 1..i : ~(steps[j].op = "start" /\ steps[j].id = id)

\* C36: under every strategy, a crash of a configured process that is answered
\* by a restart makes the call wait backoffMs * count (the process's count after
\* the restart is counted) before start() is called on the crashed process.
C36_RestartWaitsBackoff ==
    [][\A t \in Calls, id \in DOMAIN config.children :
          Handled(t, id, "restart") =>
              DelaysBeforeStart(tasks'[t], id,
                                config.children[id].backoffMs * restartCounts'[id].count)]_vars

----------------------------------------------------------------------------
(* Further properties of submitWithRetry (SpecRetry) *)

\* C37: submitWithRetry calls submitTx at most maxAttempts times; once an
\* attempt has succeeded it has returned ok with the hash of that attempt, after
\* one submitTx call and one delay for each failed attempt before it and nothing
\* more; it returns ok if and only if an attempt succeeded.
C37_BoundedAttemptsStopAtSuccess ==
    /\ Len(retry.calls) <= retry.cfg.maxAttempts
    /\ retry.hashes # <<>> =>
           /\ retry.pc = "done"
           /\ Len(retry.hashes) = 1
           /\ retry.result = Submitted(retry.hashes[1])
           /\ Len(retry.calls) = Len(retry.errors) + 1
           /\ Len(retry.delays) = Len(retry.errors)
    /\ retry.pc = "done" => (retry.result.ok <=> retry.hashes # <<>>)

\* The second of three allowed attempts succeeded: ok is returned with its
\* hash after two submitTx calls and one delay.
C37_Witness ==
    /\ retry.pc = "done"
    /\ retry.cfg.maxAttempts = 3
    /\ Len(retry.calls) = 2
    /\ Len(retry.delays) = 1
    /\ retry.hashes = <<"hash2">>
    /\ retry.result.ok /\ retry.result.value = "hash2"

----------------------------------------------------------------------------
(* Properties of configuration updates (SpecConfigUpdate) *)

\* C38: buildConfigUpdate accepts an update only if the new shares sum to
\* 10000, the new version is the old version plus 1 and the NFT policy id and
\* asset name are those of the old configuration; after any number of accepted
\* updates the version is the original one plus that number and the NFT policy
\* id and asset name are the original ones.
C38_UpdateKeepsNftAndIncrementsVersion ==
    /\ (configUtxo.fn = "buildConfigUpdate" /\ configUtxo.res.ok) =>
           /\ SumShares(configUtxo.newConfig.recipients) = 10000
           /\ configUtxo.newConfig.version = configUtxo.oldConfig.version + 1
           /\ configUtxo.newConfig.nftPolicyId = configUtxo.oldConfig.nftPolicyId
           /\ configUtxo.newConfig.nftAssetName = configUtxo.oldConfig.nftAssetName
    /\ configUtxo.config.version = configUtxo.original.version + configUtxo.updates
    /\ configUtxo.config.nftPolicyId = configUtxo.original.nftPolicyId
    /\ configUtxo.config.nftAssetName = configUtxo.original.nftAssetName

\* Two updates were accepted one after the other, the second one with other
\* recipients than the original ones.
C38_Witness ==
    /\ configUtxo.fn = "buildConfigUpdate"
    /\ configUtxo.res.ok
    /\ configUtxo.updates = 2
    /\ configUtxo.config = configUtxo.newConfig
    /\ configUtxo.config.recipients # configUtxo.original.recipients

----------------------------------------------------------------------------
(* Properties of configuration locks (SpecLockConfig) *)

\* C39: once the datum has isLocked = true, RoyaltyBuilder builds no UpdateConfig
\* and no LockConfig transaction for it: the recipients of the datum never
\* change again and isLocked stays true.
C39_LockIsPermanent ==
    [][datumUtxo.datum.isLocked =>
          /\ datumUtxo' # datumUtxo => ~datumUtxo'.res.ok
          /\ datumUtxo'.datum.recipients = datumUtxo.datum.recipients
          /\ datumUtxo'.datum.isLocked]_vars
====
